---- MODULE Spec2Model ----
(***************************************************************************)
(* Model of the EssentiaSketch analysis pipeline: the localStorage-backed  *)
(* CacheManager, the EssentiaWorkerManager request/response channel with   *)
(* its worker, and the batch processor of sketch.js.                       *)
(***************************************************************************)
EXTENDS Integers, Sequences, FiniteSets, TLC

(***************************************************************************)
(* Bounds of the model.  The source's capacity (500 entries) and byte      *)
(* budget (4.5 MiB) are scaled down to MaxEntries and BudgetUnits.         *)
(***************************************************************************)
MaxEntries == 3
BudgetUnits == 9
MaxClock == 1

Undefined == "undefined"

\* CacheManager.js:8  this.cacheVersion = '1.0'
cacheVersion == "1.0"

\* CacheManager.js:6  loadCache() runs inside the constructor before line 8
\* has assigned this.cacheVersion, so loadCache reads it as undefined.
cacheVersionDuringLoad == Undefined

\* CacheManager.js:7  this.maxCacheSize = 500 (scaled)
maxCacheSize == MaxEntries

\* CacheManager.js:45  4.5 * 1024 * 1024 (scaled, in size units)
sizeBudget == BudgetUnits

(***************************************************************************)
(* Data.                                                                   *)
(***************************************************************************)
Paths == {"a", "cc"}
Sizes == {1, 2}

\* AudioPlayerUI.js:344-356: an audio file record (fields the pipeline uses)
AudioFile(p, s) == [name |-> p, path |-> p, size |-> s]
Files == {AudioFile(p, s) : p \in Paths, s \in Sizes}
\* Records of the same (path, size) under another name
AliasFiles == {[name |-> "x", path |-> f.path, size |-> f.size] : f \in Files}

\* An AnalysisResult; src records where the values came from.
Analyses == [src : {"engine", "mock"}, val : {1}]
NullAnalysis == [src |-> "null", val |-> 0]

Max(a, b) == IF a >= b THEN a ELSE b
Min(a, b) == IF a <= b THEN a ELSE b

\* A record without a size property reads it as undefined; the template
\* literal of generateFileKey turns undefined into the text "undefined"
UndefinedSize == -1
SizeText(size) == IF size = UndefinedSize THEN Undefined ELSE ToString(size)

generateFileKeyPathOnly(audioFile) == audioFile.path
generateFileKey(audioFile) == audioFile.path \o "_" \o SizeText(audioFile.size)

\* Position of key k in the ordered store data, 0 when absent
RECURSIVE IndexOfKey(_, _)
IndexOfKey(data, k) ==
  IF data = <<>> THEN 0
  ELSE IF data[Len(data)].key = k /\ IndexOfKey(SubSeq(data, 1, Len(data) - 1), k) = 0
       THEN Len(data)
       ELSE IndexOfKey(SubSeq(data, 1, Len(data) - 1), k)

KeysOf(data) == {data[i].key : i \in 1..Len(data)}

\* hasCachedAnalysis: key in this.cache.data
hasCachedAnalysis(c, audioFile) == generateFileKey(audioFile) \in KeysOf(c.data)

(***************************************************************************)
(* JSON.stringify / JSON.parse of the store.  A property whose value is    *)
(* undefined is dropped by stringify; a parsed document without the        *)
(* property reads it back as undefined.                                    *)
(***************************************************************************)
JSONstringify(c) ==
  [valid |-> TRUE,
   hasVersion |-> c.version # Undefined,
   version |-> IF c.version = Undefined THEN "" ELSE c.version,
   data |-> c.data]

JSONparse(doc) ==
  [version |-> IF doc.hasVersion THEN doc.version ELSE Undefined,
   data |-> doc.data]

Garbage == [valid |-> FALSE, hasVersion |-> FALSE, version |-> "", data |-> <<>>]
NoItem == [present |-> FALSE, doc |-> Garbage]
Item(doc) == [present |-> TRUE, doc |-> doc]

\* new Blob([serialized]).size, in size units: the text grows with the
\* strings of each entry (fileName and path); a property whose value is
\* undefined is not in the text
PathText(path) == IF path = Undefined THEN "" ELSE path
RECURSIVE BlobSize(_)
BlobSize(data) ==
  IF data = <<>> THEN 0
  ELSE Len(data[1].fileName) + Len(PathText(data[1].path)) + BlobSize(Tail(data))

(***************************************************************************)
(* CacheManager (js/CacheManager.js:3-197).  The store `data' is kept as   *)
(* a sequence: Object.entries lists string keys in insertion order, and an *)
(* assignment to an existing key keeps its position.                       *)
(***************************************************************************)
EmptyCache(version) == [version |-> version, data |-> <<>>]

\* entries.sort((a, b) => a[1].lastAccessed - b[1].lastAccessed): a stable
\* sort, oldest first
RECURSIVE InsertByLastAccessed(_, _)
InsertByLastAccessed(sorted, e) ==
  IF sorted = <<>> THEN <<e>>
  ELSE IF sorted[Len(sorted)].lastAccessed <= e.lastAccessed
       THEN Append(sorted, e)
       ELSE Append(InsertByLastAccessed(SubSeq(sorted, 1, Len(sorted) - 1), e),
                   sorted[Len(sorted)])

RECURSIVE SortByLastAccessed(_)
SortByLastAccessed(entries) ==
  IF entries = <<>> THEN <<>>
  ELSE InsertByLastAccessed(
         SortByLastAccessed(SubSeq(entries, 1, Len(entries) - 1)),
         entries[Len(entries)])

\* Math.floor(this.maxCacheSize * 0.7)
keepCount == (maxCacheSize * 7) \div 10

\* entries.slice(-keepCount); slice(-0) is slice(0), the whole array
SliceLast(entries, k) ==
  IF k = 0 \/ k >= Len(entries) THEN entries
  ELSE SubSeq(entries, Len(entries) - k + 1, Len(entries))

\* A pruneCache that keeps the wrong end of the sorted entries
pruneCacheKeepsOldest(c) ==
  [c EXCEPT !.data = SubSeq(SortByLastAccessed(c.data), 1, Min(keepCount, Len(c.data)))]

pruneCache(c) ==
  [c EXCEPT !.data = SliceLast(SortByLastAccessed(c.data), keepCount)]

\* Outcomes of localStorage.setItem: of the first write and, after a
\* QuotaExceededError, of the retry
SetItemOutcomes ==
  {<<"ok", "none">>, <<"error", "none">>, <<"quota", "ok">>, <<"quota", "fail">>}

\* saveCache: the text is serialized first; the byte-budget check prunes the
\* in-memory store; setItem then writes the text serialized before the
\* prune.  On QuotaExceededError the store is pruned and a fresh
\* serialization is written once more; every failure is swallowed.
\* `calls' lists the pruneCache and setItem calls in the order they are
\* made, `threw' is whether an exception leaves saveCache.
saveCacheKeepsRetrying(c, st, o1, o2) ==
  LET serialized == JSONstringify(c)
      over == BlobSize(serialized.data) > sizeBudget
      c1 == IF over THEN pruneCache(c) ELSE c
      c2 == pruneCache(c1)
      pre == IF over THEN <<"pruneCache">> ELSE <<>>
  IN  CASE o1 = "ok"    -> [cache |-> c1, storage |-> Item(serialized),
                            calls |-> pre \o <<"setItem">>, threw |-> FALSE]
        [] o1 = "quota" -> [cache |-> c2,
                            storage |-> IF o2 = "ok" THEN Item(JSONstringify(c2)) ELSE st,
                            calls |-> pre \o <<"setItem", "pruneCache", "setItem">>
                                        \o (IF o2 = "ok" THEN <<>>
                                            ELSE <<"pruneCache", "setItem">>),
                            threw |-> o2 # "ok"]
        [] OTHER        -> [cache |-> c1, storage |-> st,
                            calls |-> pre \o <<"setItem">>, threw |-> FALSE]

saveCache(c, st, o1, o2) ==
  LET serialized == JSONstringify(c)
      over == BlobSize(serialized.data) > sizeBudget
      c1 == IF over THEN pruneCache(c) ELSE c
      c2 == pruneCache(c1)
      pre == IF over THEN <<"pruneCache">> ELSE <<>>
  IN  CASE o1 = "ok"    -> [cache |-> c1, storage |-> Item(serialized),
                            calls |-> pre \o <<"setItem">>, threw |-> FALSE]
        [] o1 = "quota" -> [cache |-> c2,
                            storage |-> IF o2 = "ok" THEN Item(JSONstringify(c2)) ELSE st,
                            calls |-> pre \o <<"setItem", "pruneCache", "setItem">>,
                            threw |-> FALSE]
        [] OTHER        -> [cache |-> c1, storage |-> st,
                            calls |-> pre \o <<"setItem">>, threw |-> FALSE]

\* Whether saveCache ran pruneCache (byte budget or quota)
SaveEvicts(c, o1) == BlobSize(c.data) > sizeBudget \/ o1 = "quota"
\* Whether saveCache's last write attempt stored the text
SaveWrote(o1, o2) == o1 = "ok" \/ (o1 = "quota" /\ o2 = "ok")

\* The entry literal of setCachedAnalysis: Date.now() is read once for
\* cachedAt (t1) and once more for lastAccessed (t2)
NewEntry(audioFile, analysis, t1, t2) ==
  [key |-> generateFileKey(audioFile),
   fileName |-> audioFile.name,
   path |-> audioFile.path,
   size |-> audioFile.size,
   analysis |-> analysis,
   cachedAt |-> t1,
   lastAccessed |-> t2]

\* this.cache.data[key] = {...}
PutEntry(data, e) ==
  LET i == IndexOfKey(data, e.key)
  IN  IF i = 0 THEN Append(data, e) ELSE [data EXCEPT ![i] = e]

setCachedAnalysisPrunesAtMax(c, st, audioFile, analysis, t1, t2, o1, o2) ==
  LET put == [c EXCEPT !.data = PutEntry(c.data, NewEntry(audioFile, analysis, t1, t2))]
      c1  == IF Len(put.data) >= maxCacheSize THEN pruneCache(put) ELSE put
  IN  saveCache(c1, st, o1, o2)

setCachedAnalysis(c, st, audioFile, analysis, t1, t2, o1, o2) ==
  LET put == [c EXCEPT !.data = PutEntry(c.data, NewEntry(audioFile, analysis, t1, t2))]
      c1  == IF Len(put.data) > maxCacheSize THEN pruneCache(put) ELSE put
  IN  saveCache(c1, st, o1, o2)

\* getCachedAnalysis: the returned analysis, null on a miss
getCachedResult(c, audioFile) ==
  LET i == IndexOfKey(c.data, generateFileKey(audioFile))
  IN  IF i = 0 THEN NullAnalysis ELSE c.data[i].analysis

\* getCachedAnalysis: the store after the call (lastAccessed of a hit)
getCachedAnalysisRestamps(c, audioFile, t) ==
  LET i == IndexOfKey(c.data, generateFileKey(audioFile))
  IN  IF i = 0 THEN c
      ELSE [c EXCEPT !.data[i].lastAccessed = t, !.data[i].cachedAt = t]

getCachedAnalysisMovesToEnd(c, audioFile, t) ==
  LET i == IndexOfKey(c.data, generateFileKey(audioFile))
  IN  IF i = 0 THEN c
      ELSE [c EXCEPT !.data = Append(SubSeq(c.data, 1, i - 1)
                                       \o SubSeq(c.data, i + 1, Len(c.data)),
                                     [c.data[i] EXCEPT !.lastAccessed = t])]

getCachedAnalysis(c, audioFile, t) ==
  LET i == IndexOfKey(c.data, generateFileKey(audioFile))
  IN  IF i = 0 THEN c ELSE [c EXCEPT !.data[i].lastAccessed = t]

clearCache(thisVersion) ==
  [cache |-> EmptyCache(thisVersion), storage |-> NoItem]

\* loadCache, with thisVersion the value of this.cacheVersion it reads
loadCache(st, thisVersion) ==
  IF ~st.present THEN [cache |-> EmptyCache(thisVersion), storage |-> st]
  ELSE IF ~st.doc.valid THEN [cache |-> EmptyCache(thisVersion), storage |-> st]
  ELSE IF JSONparse(st.doc).version # thisVersion
       THEN [cache |-> EmptyCache(thisVersion),
             storage |-> clearCache(thisVersion).storage]
       ELSE [cache |-> JSONparse(st.doc), storage |-> st]

\* new CacheManager(): line 6 calls loadCache before line 8 sets cacheVersion
constructCacheManager(st) == loadCache(st, cacheVersionDuringLoad)

importAccepted(doc) == doc.valid /\ JSONparse(doc).version = cacheVersion

importCache(c, st, doc, o1, o2) ==
  IF importAccepted(doc) THEN saveCache(JSONparse(doc), st, o1, o2)
  ELSE [cache |-> c, storage |-> st]

exportCache(c) == JSONstringify(c)

\* getCacheStats: the entry count, the estimated size and the oldest and
\* newest cachedAt (null, here -1, for an empty store)
RECURSIVE OldestCachedAt(_)
OldestCachedAt(data) ==
  IF Len(data) = 1 THEN data[1].cachedAt
  ELSE Min(data[1].cachedAt, OldestCachedAt(Tail(data)))
RECURSIVE NewestCachedAt(_)
NewestCachedAt(data) ==
  IF Len(data) = 1 THEN data[1].cachedAt
  ELSE Max(data[1].cachedAt, NewestCachedAt(Tail(data)))
getCacheStats(c) ==
  IF c.data = <<>>
  THEN [totalEntries |-> 0, cacheSize |-> 0, oldestEntry |-> -1, newestEntry |-> -1]
  ELSE [totalEntries |-> Len(c.data), cacheSize |-> BlobSize(c.data),
        oldestEntry |-> OldestCachedAt(c.data), newestEntry |-> NewestCachedAt(c.data)]

(***************************************************************************)
(* EssentiaWorkerManager (CacheManager.js) and the worker script           *)
(* (essentia.worker.js).  Promises are kept by request id; a message is a  *)
(* record [type, id, payload].                                             *)
(***************************************************************************)
NoWorker == "null"
TheWorker == "worker"

\* new EssentiaWorkerManager()
NewWorkerManager ==
  [worker |-> NoWorker, isInitialized |-> FALSE, messageId |-> 0,
   pendingMessages |-> {}]

\* The random feature values are not distinguished: a synthetic result is
\* told from a measured one by its origin.
generateMockAnalysisNothing == NullAnalysis
generateMockAnalysis == [src |-> "mock", val |-> 1]

NoPayload == [none |-> TRUE]
NewPromise(type) ==
  [type |-> type, state |-> "pending", reason |-> "", value |-> NoPayload]

\* resolve / reject of a promise: a settled promise stays as it is
Resolve(ps, id, payload) ==
  IF ps[id + 1].state # "pending" THEN ps
  ELSE [ps EXCEPT ![id + 1].state = "resolved", ![id + 1].value = payload]

Reject(ps, id, why) ==
  IF ps[id + 1].state # "pending" THEN ps
  ELSE [ps EXCEPT ![id + 1].state = "rejected", ![id + 1].reason = why]

\* sendMessage: the executor registers the callbacks under a fresh id, posts
\* the message and arms the 60 s timer; without a worker postMessage throws
\* after the registration, the promise rejects and no timer is armed.
sendMessage(ew, ps, tm, outq, type, payload) ==
  LET id     == ew.messageId
      ew1    == [ew EXCEPT !.messageId = id + 1,
                           !.pendingMessages = @ \cup {id}]
      ps1    == Append(ps, NewPromise(type))
      posted == ew.worker # NoWorker
  IN  [ew       |-> ew1,
       promises |-> IF posted THEN ps1 ELSE Reject(ps1, id, "throw"),
       timers   |-> IF posted THEN tm \cup {id} ELSE tm,
       toWorker |-> IF posted
                    THEN Append(outq, [type |-> type, id |-> id, payload |-> payload])
                    ELSE outq,
       id       |-> id]

\* handleMessage: an unknown id is logged and dropped; otherwise the entry
\* is removed and the promise rejected ('error') or resolved (anything else)
handleMessageResetsOnUnknown(ew, ps, m) ==
  IF m.id \notin ew.pendingMessages
  THEN [ew |-> [ew EXCEPT !.isInitialized = FALSE], promises |-> ps]
  ELSE [ew       |-> [ew EXCEPT !.pendingMessages = @ \ {m.id}],
        promises |-> IF m.type = "error" THEN Reject(ps, m.id, "error")
                     ELSE Resolve(ps, m.id, m.payload)]

handleMessageKeepsEntry(ew, ps, m) ==
  IF m.id \notin ew.pendingMessages THEN [ew |-> ew, promises |-> ps]
  ELSE [ew       |-> ew,
        promises |-> IF m.type = "error" THEN Reject(ps, m.id, "error")
                     ELSE Resolve(ps, m.id, m.payload)]

handleMessageByArrival(ew, ps, m) ==
  IF m.id \notin ew.pendingMessages THEN [ew |-> ew, promises |-> ps]
  ELSE LET first == CHOOSE i \in ew.pendingMessages :
                      \A j \in ew.pendingMessages : i <= j
       IN  [ew       |-> [ew EXCEPT !.pendingMessages = @ \ {first}],
            promises |-> IF m.type = "error" THEN Reject(ps, first, "error")
                         ELSE Resolve(ps, first, m.payload)]

handleMessage(ew, ps, m) ==
  IF m.id \notin ew.pendingMessages THEN [ew |-> ew, promises |-> ps]
  ELSE [ew       |-> [ew EXCEPT !.pendingMessages = @ \ {m.id}],
        promises |-> IF m.type = "error" THEN Reject(ps, m.id, "error")
                     ELSE Resolve(ps, m.id, m.payload)]

\* The setTimeout callback of sendMessage
timeoutCallbackKeepsPending(ew, ps, id) == [ew |-> ew, promises |-> ps]
timeoutCallbackDeletesOnly(ew, ps, id) ==
  [ew |-> [ew EXCEPT !.pendingMessages = @ \ {id}], promises |-> ps]
timeoutCallbackKeepsEntry(ew, ps, id) ==
  IF id \in ew.pendingMessages
  THEN [ew |-> ew, promises |-> Reject(ps, id, "timeout")]
  ELSE [ew |-> ew, promises |-> ps]
timeoutCallback(ew, ps, id) ==
  IF id \in ew.pendingMessages
  THEN [ew       |-> [ew EXCEPT !.pendingMessages = @ \ {id}],
        promises |-> Reject(ps, id, "timeout")]
  ELSE [ew |-> ew, promises |-> ps]

\* terminate()
terminateResetsIds(ew) ==
  IF ew.worker # NoWorker
  THEN [ew EXCEPT !.worker = NoWorker, !.isInitialized = FALSE, !.messageId = 0]
  ELSE ew
terminate(ew) ==
  IF ew.worker # NoWorker
  THEN [ew EXCEPT !.worker = NoWorker, !.isInitialized = FALSE]
  ELSE ew

\* initialize() after its await: the init result, or the catch block
initializeContinues(ew, p) ==
  IF p.state = "rejected" THEN [ew EXCEPT !.isInitialized = FALSE]
  ELSE IF p.value.success THEN [ew EXCEPT !.isInitialized = TRUE]
  ELSE ew

\* analyzeAudio() after its await: result.analysis, or the catch block
analyzeAudioPropagates(p) ==
  IF p.state = "rejected" THEN NullAnalysis ELSE p.value.analysis
analyzeAudioReturns(p) ==
  IF p.state = "rejected" THEN generateMockAnalysis ELSE p.value.analysis

\* analyzeAudio() up to its first await: an uninitialized channel returns
\* the mock at once; otherwise the request is sent and the call waits for
\* its promise, unless sendMessage rejected on the spot (the catch block)
analyzeAudioAlwaysSends(ew, ps, tm, outq, buf, name) ==
  LET r == sendMessage(ew, ps, tm, outq, "analyze",
                       [audioBuffer |-> buf, fileName |-> name])
      p == r.promises[r.id + 1]
  IN  [ew |-> r.ew, promises |-> r.promises, timers |-> r.timers,
       toWorker |-> r.toWorker,
       state  |-> IF p.state = "rejected" THEN "resolved" ELSE "awaiting",
       result |-> IF p.state = "rejected" THEN analyzeAudioReturns(p)
                  ELSE NullAnalysis]

analyzeAudio(ew, ps, tm, outq, buf, name) ==
  IF ~ew.isInitialized
  THEN [ew |-> ew, promises |-> ps, timers |-> tm, toWorker |-> outq,
        state |-> "resolved", result |-> generateMockAnalysis]
  ELSE LET r == sendMessage(ew, ps, tm, outq, "analyze",
                            [audioBuffer |-> buf, fileName |-> name])
           p == r.promises[r.id + 1]
       IN  [ew |-> r.ew, promises |-> r.promises, timers |-> r.timers,
            toWorker |-> r.toWorker,
            state  |-> IF p.state = "rejected" THEN "resolved" ELSE "awaiting",
            result |-> IF p.state = "rejected" THEN analyzeAudioReturns(p)
                       ELSE NullAnalysis]

\* Worker side: initializeEssentia; `built' is whether new Essentia(...)
\* succeeded
initializeEssentia(built) == [isInitialized |-> built, result |-> [success |-> built]]

\* Worker side: analyzeAudio(audioBuffer); `measured' is whether the
\* extraction ran through without an exception reaching the outer catch
workerAnalyzeAudio(isInit, audioBuffer, measured) ==
  IF ~isInit THEN generateMockAnalysis
  ELSE IF audioBuffer = "null" \/ ~measured THEN generateMockAnalysis
  ELSE [src |-> "engine", val |-> 1]

\* Worker side: self.onmessage
workerOnMessage(isInit, m, built, measured) ==
  IF m.type = "init"
  THEN [isInitialized |-> initializeEssentia(built).isInitialized,
        reply |-> <<[type |-> "init-complete", id |-> m.id,
                     payload |-> initializeEssentia(built).result]>>]
  ELSE IF m.type = "analyze"
  THEN [isInitialized |-> isInit,
        reply |-> <<[type |-> "analysis-complete", id |-> m.id,
                     payload |-> [analysis |->
                        workerAnalyzeAudio(isInit, m.payload.audioBuffer, measured)]]>>]
  ELSE [isInitialized |-> isInit, reply |-> <<>>]

(***************************************************************************)
(* State.                                                                  *)
(***************************************************************************)
VARIABLES
  cache,      \* CacheManager.cache: [version, data]
  storage,    \* localStorage item 'essentiaSketch_audioAnalysis'
  now,        \* Date.now()
  last,       \* the last cache operation, its argument and its result
  hist        \* the run of setCachedAnalysis calls since the store was empty

VARIABLES
  essentiaWorker,  \* EssentiaWorkerManager: worker, isInitialized, messageId, pendingMessages
  promises,        \* the promise of each request, by id
  timers,          \* ids whose 60 s timer is armed
  toWorker,        \* messages posted to the worker, not yet handled by it
  fromWorker,      \* messages posted by the worker, not yet dispatched
  engine,          \* the worker script's isInitialized
  replaced,        \* the workers a later initialize() replaced: no longer
                   \* referenced but still running, each with its queues
                   \* and its script's isInitialized
  returned         \* what the last analyzeAudio call returned

VARIABLES
  pc,                \* where the batch processor is suspended
  idx,               \* the file being processed (1 is audioFiles[0])
  audioFiles,        \* the dataset records, each with its analysis
  processingStatus,  \* { current, total, cached }
  isLoading,
  audioPlayerUIs,    \* the files that have a player
  audioBuffer,       \* the decode result the processor holds
  trace,             \* per file: what happened to it in this run
  audioManager       \* AudioManager: the playback fields of each record,
                     \* currentPlayingAudio, and the playAudio calls that
                     \* are suspended at `await this.loadAudio(audioFile)'

cacheVars == <<cache, storage, now, last, hist>>
chanVars ==
  <<essentiaWorker, promises, timers, toWorker, fromWorker, engine, replaced, returned>>
batchVars ==
  <<pc, idx, audioFiles, processingStatus, isLoading, audioPlayerUIs, audioBuffer, trace,
    audioManager>>
appVars == <<chanVars, batchVars>>
vars == <<cacheVars, chanVars, batchVars>>

\* The playback fields of a record of a real file as loadAudioDataset
\* creates it, and the AudioManager holding n such records
\* audioElement is the Audio element the record refers to, by its number in
\* the order of creation; NoElement is null
NoElement == 0
NewPlayback == [isLoaded |-> FALSE, isPlaying |-> FALSE, audioElement |-> NoElement]
NewAudioManager(n) ==
  [files |-> [k \in 1..n |-> NewPlayback], currentPlayingAudio |-> 0, elements |-> <<>>]
\* The AudioManager holding the records of a dataset: the dummy records are
\* loaded from the start and never have an audio element
AudioManagerOf(ds) ==
  [files |-> [k \in 1..Len(ds) |-> [NewPlayback EXCEPT !.isLoaded = ds[k].isLoaded]],
   currentPlayingAudio |-> 0, elements |-> <<>>]

\* setup(): new EssentiaWorkerManager(); the worker does not exist yet
ChannelInit ==
  /\ essentiaWorker = NewWorkerManager
  /\ promises = <<>>
  /\ timers = {}
  /\ toWorker = <<>>
  /\ fromWorker = <<>>
  /\ engine = FALSE
  /\ replaced = <<>>
  /\ returned = NullAnalysis

\* The globals of sketch.js before initializeApp runs
BatchInit(at) ==
  /\ pc = at
  /\ idx = 0
  /\ audioFiles = <<>>
  /\ processingStatus = [current |-> 0, total |-> 0, cached |-> 0]
  /\ isLoading = TRUE
  /\ audioPlayerUIs = <<>>
  /\ audioBuffer = "none"
  /\ trace = <<>>
  /\ audioManager = NewAudioManager(0)

(***************************************************************************)
(* Bookkeeping of the cache operations.                                    *)
(***************************************************************************)
Op(op, key, arg, ret, flag, stored) ==
  [op |-> op, key |-> key, arg |-> arg, ret |-> ret, flag |-> flag, stored |-> stored]
NoOp == Op("none", "", NullAnalysis, NullAnalysis, FALSE, NoItem)

HistEmpty == [valid |-> TRUE, n |-> 0, keys |-> {}, evict |-> FALSE, maxEv |-> -1]
HistInvalid == [valid |-> FALSE, n |-> 0, keys |-> {}, evict |-> FALSE, maxEv |-> -1]

\* Largest lastAccessed among the entries of `before' that `after' dropped
MaxEvicted(before, after, floor) ==
  LET gone == {i \in 1..Len(before) : before[i].key \notin KeysOf(after)}
  IN  IF gone = {} THEN floor
      ELSE Max(floor, CHOOSE m \in {before[i].lastAccessed : i \in gone} :
                        \A i \in gone : before[i].lastAccessed <= m)

HistAfterSet(h, c, audioFile, analysis, t1, t2, o1, after) ==
  LET k   == generateFileKey(audioFile)
      put == [c EXCEPT !.data = PutEntry(c.data, NewEntry(audioFile, analysis, t1, t2))]
      c1  == IF Len(put.data) > maxCacheSize THEN pruneCache(put) ELSE put
  IN  IF ~h.valid \/ h.n > maxCacheSize \/ k \in h.keys THEN HistInvalid
      ELSE [valid |-> TRUE,
            n     |-> h.n + 1,
            keys  |-> h.keys \cup {k},
            evict |-> h.evict \/ SaveEvicts(c1, o1),
            maxEv |-> MaxEvicted(put.data, after.data, h.maxEv)]

(***************************************************************************)
(* Initial localStorage contents: nothing, a store left by an older build  *)
(* (another version tag), or text that is not JSON.                        *)
(***************************************************************************)
OldDoc ==
  [valid |-> TRUE, hasVersion |-> TRUE, version |-> "0.9",
   data |-> <<NewEntry(AudioFile("a", 1), [src |-> "engine", val |-> 1], 0, 0)>>]

InitialStores == {NoItem, Item(OldDoc), Item(Garbage)}

\* A version-1.0 export holding maxCacheSize + 1 entries
PoolFiles ==
  <<AudioFile("a", 1), AudioFile("a", 2), AudioFile("b", 1), AudioFile("b", 2),
    AudioFile("c", 1), AudioFile("c", 2)>>

BigDoc ==
  [valid |-> TRUE, hasVersion |-> TRUE, version |-> cacheVersion,
   data |-> [i \in 1..Min(maxCacheSize + 1, Len(PoolFiles)) |->
               NewEntry(PoolFiles[i], [src |-> "engine", val |-> 1], 0, 0)]]

ImportDocs(c) == {Garbage, OldDoc, BigDoc, exportCache(c)}

(***************************************************************************)
(* The cache operations as actions (CacheSpec).                            *)
(***************************************************************************)
\* Date.now() read n times in a row, the first reading not before `from':
\* the clock may advance between two readings and never goes back
RECURSIVE Readings(_, _)
Readings(from, n) ==
  IF n = 0 THEN {<<>>}
  ELSE UNION {{<<t>> \o r : r \in Readings(t, n - 1)} : t \in from..MaxClock}

\* Time passes between two operations
Tick ==
  /\ now < MaxClock
  /\ now' = now + 1
  /\ UNCHANGED <<cache, storage, last, hist>>

\* A new session: the page is loaded and setup() constructs a CacheManager
CConstruct ==
  LET r == constructCacheManager(storage)
  IN  /\ cache' = r.cache
      /\ storage' = r.storage
      /\ last' = Op("construct", "", NullAnalysis, NullAnalysis, FALSE, storage)
      /\ hist' = IF r.cache.data = <<>> THEN HistEmpty ELSE HistInvalid
      /\ UNCHANGED now

\* setCachedAnalysis, with the two readings of the clock it makes
CSet(audioFile, analysis, o1, o2) ==
  \E ts \in Readings(now, 2) :
    LET r == setCachedAnalysis(cache, storage, audioFile, analysis, ts[1], ts[2], o1, o2)
    IN  /\ cache' = r.cache
        /\ storage' = r.storage
        /\ last' = Op("set", generateFileKey(audioFile), analysis, NullAnalysis,
                      SaveWrote(o1, o2), NoItem)
        /\ hist' = HistAfterSet(hist, cache, audioFile, analysis, ts[1], ts[2], o1, r.cache)
        /\ now' = ts[2]

\* getCachedAnalysis: a hit reads the clock once, a miss does not; `last'
\* keeps the last operation that wrote the store
CGet(audioFile) ==
  IF hasCachedAnalysis(cache, audioFile)
  THEN \E ts \in Readings(now, 1) :
         /\ cache' = getCachedAnalysis(cache, audioFile, ts[1])
         /\ now' = ts[1]
         /\ UNCHANGED <<storage, last, hist>>
  ELSE UNCHANGED <<cache, storage, now, last, hist>>

CClear ==
  LET r == clearCache(cacheVersion)
  IN  /\ cache' = r.cache
      /\ storage' = r.storage
      /\ last' = Op("clear", "", NullAnalysis, NullAnalysis, FALSE, NoItem)
      /\ hist' = HistEmpty
      /\ UNCHANGED now

CImport(doc, o1, o2) ==
  LET r == importCache(cache, storage, doc, o1, o2)
  IN  /\ cache' = r.cache
      /\ storage' = r.storage
      /\ last' = Op("import", "", NullAnalysis, NullAnalysis,
                    importAccepted(doc) /\ SaveWrote(o1, o2), NoItem)
      /\ hist' = IF importAccepted(doc) THEN HistInvalid ELSE hist
      /\ UNCHANGED now

\* The files and results the session-level operations are called with
SessionFiles == {AudioFile("a", 1), AudioFile("cc", 1)}
Engine1 == [src |-> "engine", val |-> 1]
Mock1 == [src |-> "mock", val |-> 1]

CacheInit ==
  /\ \E st \in InitialStores :
       /\ cache = constructCacheManager(st).cache
       /\ storage = constructCacheManager(st).storage
       /\ last = Op("construct", "", NullAnalysis, NullAnalysis, FALSE, st)
  /\ now = 0
  /\ hist = HistEmpty
  /\ ChannelInit
  /\ BatchInit("idle")

\* Sessions over one localStorage: page loads, writes, clears and imports
CacheNext ==
  \/ CConstruct /\ UNCHANGED appVars
  \/ \E f \in SessionFiles, a \in {Engine1, Mock1}, o \in SetItemOutcomes :
       CSet(f, a, o[1], o[2]) /\ UNCHANGED appVars
  \/ \E f \in SessionFiles : CGet(f) /\ UNCHANGED appVars
  \/ CClear /\ UNCHANGED appVars
  \/ \E doc \in ImportDocs(cache), o \in SetItemOutcomes :
       CImport(doc, o[1], o[2]) /\ UNCHANGED appVars

CacheSpec == CacheInit /\ [][CacheNext]_vars

\* One session on a store that starts empty: writes and reads as time passes
EvictInit ==
  /\ cache = constructCacheManager(NoItem).cache
  /\ storage = NoItem
  /\ last = Op("construct", "", NullAnalysis, NullAnalysis, FALSE, NoItem)
  /\ now = 0
  /\ hist = HistEmpty
  /\ ChannelInit
  /\ BatchInit("idle")

\* The same start, the run of distinct writes not being followed
EvictStart ==
  /\ cache = constructCacheManager(NoItem).cache
  /\ storage = NoItem
  /\ last = Op("construct", "", NullAnalysis, NullAnalysis, FALSE, NoItem)
  /\ now = 0
  /\ hist = HistInvalid
  /\ ChannelInit
  /\ BatchInit("idle")

\* The calls of setCachedAnalysis of this session: every file with an
\* engine result
EvictInputs == {<<f, Engine1>> : f \in Files}

EvictNext ==
  \/ Tick /\ UNCHANGED appVars
  \/ \E i \in EvictInputs, o \in SetItemOutcomes :
       CSet(i[1], i[2], o[1], o[2]) /\ UNCHANGED appVars
  \/ \E f \in Files : CGet(f) /\ UNCHANGED appVars

EvictSpec == EvictStart /\ [][EvictNext]_vars

\* One session on a store that starts empty, written only with keys not
\* written before, up to maxCacheSize + 1 of them
RunFiles == Files \cup {AudioFile("b", 1)}

CSetNew(audioFile, o1, o2) ==
  /\ hist.valid
  /\ hist.n <= maxCacheSize
  /\ generateFileKey(audioFile) \notin hist.keys
  /\ CSet(audioFile, Engine1, o1, o2)

RunNext ==
  \/ Tick /\ UNCHANGED appVars
  \/ \E f \in RunFiles, o \in SetItemOutcomes : CSetNew(f, o[1], o[2]) /\ UNCHANGED appVars
  \/ \E f \in RunFiles : CGet(f) /\ UNCHANGED appVars

RunSpec == EvictInit /\ [][RunNext]_vars

(***************************************************************************)
(* One session with the reading operations: hasCachedAnalysis,             *)
(* getCacheStats and exportCache are recorded in `last' with what they     *)
(* returned; the exported text can be imported again.                      *)
(***************************************************************************)
CReadPersists(audioFile) ==
  /\ last' = Op("get", generateFileKey(audioFile), NullAnalysis,
                getCachedResult(cache, audioFile), hasCachedAnalysis(cache, audioFile),
                NoItem)
  /\ IF hasCachedAnalysis(cache, audioFile)
     THEN \E ts \in Readings(now, 1) :
            /\ cache' = getCachedAnalysis(cache, audioFile, ts[1])
            /\ storage' = Item(JSONstringify(cache'))
            /\ now' = ts[1]
            /\ UNCHANGED hist
     ELSE UNCHANGED <<cache, storage, now, hist>>

\* getCachedAnalysis, recorded in `last' with what it returned
CRead(audioFile) ==
  /\ last' = Op("get", generateFileKey(audioFile), NullAnalysis,
                getCachedResult(cache, audioFile), hasCachedAnalysis(cache, audioFile),
                NoItem)
  /\ IF hasCachedAnalysis(cache, audioFile)
     THEN \E ts \in Readings(now, 1) :
            /\ cache' = getCachedAnalysis(cache, audioFile, ts[1])
            /\ now' = ts[1]
            /\ UNCHANGED <<storage, hist>>
     ELSE UNCHANGED <<cache, storage, now, hist>>

CHas(audioFile) ==
  /\ last' = Op("has", generateFileKey(audioFile), NullAnalysis, NullAnalysis,
                hasCachedAnalysis(cache, audioFile), NoItem)
  /\ UNCHANGED <<cache, storage, now, hist>>

CStats ==
  /\ last' = Op("stats", "", NullAnalysis, NullAnalysis,
                getCacheStats(cache).totalEntries > 0, NoItem)
  /\ UNCHANGED <<cache, storage, now, hist>>

CExport ==
  /\ last' = Op("export", "", NullAnalysis, NullAnalysis, FALSE,
                Item(exportCache(cache)))
  /\ UNCHANGED <<cache, storage, now, hist>>

ReadNext ==
  \/ Tick /\ UNCHANGED appVars
  \/ \E f \in SessionFiles, o \in SetItemOutcomes :
       CSet(f, Engine1, o[1], o[2]) /\ UNCHANGED appVars
  \/ \E f \in SessionFiles : CRead(f) /\ UNCHANGED appVars
  \/ \E f \in SessionFiles : CHas(f) /\ UNCHANGED appVars
  \/ CStats /\ UNCHANGED appVars
  \/ CExport /\ UNCHANGED appVars
  \/ CClear /\ UNCHANGED appVars
  \/ \E doc \in {Garbage, exportCache(cache)}, o \in SetItemOutcomes :
       CImport(doc, o[1], o[2]) /\ UNCHANGED appVars

ReadSpec == EvictStart /\ [][ReadNext]_vars

(***************************************************************************)
(* Claims about the cache.                                                 *)
(***************************************************************************)
\* What a load can be compared on: key, analysis and cachedAt of each entry
Persisted(data) ==
  [i \in 1..Len(data) |->
     [key |-> data[i].key, analysis |-> data[i].analysis, cachedAt |-> data[i].cachedAt]]

LoadedFrom == last.stored
LoadedSomething == last.op = "construct" /\ LoadedFrom.present /\ LoadedFrom.doc.valid

\* C5: constructing a CacheManager over a persisted store whose version tag
\* is not the running version '1.0' gives an in-memory store with no
\* entries.
C5_MismatchedVersionYieldsEmpty ==
  (LoadedSomething /\ JSONparse(LoadedFrom.doc).version # cacheVersion)
    => cache.data = <<>>

\* C6: a store this program persisted (its tag is the running version, or
\* the program wrote it without one) is loaded with all of its entries by
\* the next session's CacheManager.
C6_PersistedStoreIsLoaded ==
  (LoadedSomething /\ JSONparse(LoadedFrom.doc).version \in {cacheVersion, Undefined})
    => Persisted(cache.data) = Persisted(LoadedFrom.doc.data)

\* C7: between operations the in-memory store never holds more than
\* maxCacheSize entries.
C7_CountBounded == Len(cache.data) <= maxCacheSize

\* Every retained entry was accessed no earlier than every evicted one
RetainedAreMostRecent ==
  /\ KeysOf(cache.data) \subseteq hist.keys
  /\ \A i \in 1..Len(cache.data) : cache.data[i].lastAccessed >= hist.maxEv

AfterDistinctSets == hist.valid /\ hist.n = maxCacheSize + 1

\* C8 as stated: after maxCacheSize + 1 calls of setCachedAnalysis with
\* distinct keys on an initially empty store, at most floor(0.7 *
\* maxCacheSize) entries remain, the most recently accessed ones.
C8_AtMostKeepCount ==
  AfterDistinctSets => (Len(cache.data) <= keepCount /\ RetainedAreMostRecent)

\* C8 amended: when no save of the run evicted (byte budget or quota),
\* exactly floor(0.7 * maxCacheSize) entries remain, the most recently
\* accessed ones; in any case at most maxCacheSize remain.
C8_KeepCountWithoutSaveEviction ==
  AfterDistinctSets =>
    /\ RetainedAreMostRecent
    /\ Len(cache.data) <= maxCacheSize
    /\ ~hist.evict => Len(cache.data) = keepCount

C8_Witness ==
  /\ AfterDistinctSets /\ ~hist.evict
  /\ hist.maxEv >= 0
  /\ \E i \in 1..Len(cache.data) : cache.data[i].lastAccessed > hist.maxEv

\* C9: right after setCachedAnalysis(f, a), getCachedAnalysis(g) returns a
\* for every g of the same (path, size).
C9_SetThenGet ==
  last.op = "set" =>
    \A g \in Files \cup AliasFiles :
      generateFileKey(g) = last.key => getCachedResult(cache, g) = last.arg

(***************************************************************************)
(* The batch processor of sketch.js.  A step is one host task together     *)
(* with the promise continuations that run before the next task: from a    *)
(* resumption up to the next await of a timer, a fetch or a worker reply.  *)
(***************************************************************************)
MaxFiles == 3
MaxRequests == 3

\* The audio files the server lists, with distinct paths
Listing ==
  <<AudioFile("a", 1), AudioFile("b", 1), AudioFile("cc", 1), AudioFile("d", 1),
    AudioFile("e", 1)>>

\* loadAudioDataset, the record of a listed file: a null analysis, not loaded
ListedRecord(f) ==
  [name |-> f.name, path |-> f.path, size |-> f.size, analysis |-> NullAnalysis,
   isLoaded |-> FALSE]
ListedRecords(files) == [k \in 1..Len(files) |-> ListedRecord(files[k])]

\* createDummyAudioData: five records with a name and no url, path or size,
\* each with an analysis of its own written in the literal and isLoaded:
\* true.  The names stand for guitar_sample_1.mp3, bass_sample_1.mp3,
\* guitar_sample_2.mp3, bass_sample_2.mp3 and guitar_sample_3.mp3.
Preset(k) == [src |-> "preset", val |-> k]
DummyNames == <<"g1", "b1", "g2", "b2", "g3">>
createDummyAudioData ==
  [k \in 1..Len(DummyNames) |->
     [name |-> DummyNames[k], path |-> Undefined, size |-> UndefinedSize,
      analysis |-> Preset(k), isLoaded |-> TRUE]]

\* What loadAudioDataset resolves with: the records of the listed files,
\* or, when a request failed or no audio file was listed, the dummy records
Datasets ==
  {ListedRecords(SubSeq(Listing, 1, n)) : n \in 1..Min(MaxFiles, Len(Listing))}
    \cup {createDummyAudioData}

AudioFileRecordDropsAnalysis(f, analysis) ==
  [name |-> f.name, path |-> f.path, size |-> f.size, analysis |-> NullAnalysis]
AudioFileRecord(f, analysis) ==
  [name |-> f.name, path |-> f.path, size |-> f.size, analysis |-> analysis]

NewTrace == [decode |-> "none", sent |-> FALSE, timedOut |-> FALSE, wrote |-> FALSE]

\* initializeApp, audioFiles.forEach: every cached file is read once, each
\* read with its own reading of the clock (ts[k] for the file at k)
RECURSIVE LoadCached(_, _, _)
LoadCached(c, ds, ts) ==
  IF ds = <<>> THEN c
  ELSE LoadCached(IF hasCachedAnalysis(c, Head(ds))
                  THEN getCachedAnalysis(c, Head(ds), Head(ts)) ELSE c,
                  Tail(ds), Tail(ts))

\* The last reading the task of DatasetLoaded made: that of
\* processFirstAudioFile when the first file is cached, else that of the
\* last cached file, else none
LastReading(c, ds, ts, t) ==
  LET hits == {k \in 1..Len(ds) : hasCachedAnalysis(c, ds[k])}
  IN  IF hits = {} THEN t
      ELSE IF 1 \in hits THEN ts[Len(ds) + 1]
      ELSE ts[CHOOSE k \in hits : \A j \in hits : j <= k]

CachedCount(c, ds) == Cardinality({k \in 1..Len(ds) : hasCachedAnalysis(c, ds[k])})

\* The loop of processRemainingAudioFiles after file k got its player:
\* the next file is preceded by a yield, after the last one the loop ends
PcAfter(k, n) == IF k < n THEN "yield_before" ELSE "done"
IdxAfterSkipsOne(k, n) == IF k < n THEN Min(k + 2, n) ELSE k
IdxAfter(k, n) == IF k < n THEN k + 1 ELSE k

\* The player of file k is pushed and progress is updated
PlayerAddedInFront(k) ==
  /\ audioPlayerUIs' = <<k>> \o audioPlayerUIs
  /\ UNCHANGED audioManager
  /\ processingStatus' = [processingStatus EXCEPT !.current = k]
  /\ pc' = PcAfter(k, Len(audioFiles))
  /\ idx' = IdxAfter(k, Len(audioFiles))
PlayerAdded(k) ==
  /\ audioPlayerUIs' = Append(audioPlayerUIs, k)
  /\ UNCHANGED audioManager
  /\ processingStatus' = [processingStatus EXCEPT !.current = k]
  /\ pc' = PcAfter(k, Len(audioFiles))
  /\ idx' = IdxAfter(k, Len(audioFiles))

\* analyzeAudio has returned `result' for file idx: the analysis is stored
\* in the record and written to the cache.  The first file then gets its
\* player, the UI is shown and the loop starts; a later file yields first.
\* (The catch blocks of sketch.js:233 and 289 are never entered:
\* loadAudioBuffer, analyzeAudio and setCachedAnalysis do not throw.)
Analyzed(result, o1, o2, tr) ==
  /\ CSet([name |-> audioFiles[idx].name, path |-> audioFiles[idx].path,
           size |-> audioFiles[idx].size], result, o1, o2)
  /\ audioFiles' = [audioFiles EXCEPT ![idx].analysis = result]
  /\ trace' = [tr EXCEPT ![idx].wrote = TRUE]
  /\ audioBuffer' = "none"
  /\ IF pc \in {"first_decode", "first_analyze"}
     THEN /\ PlayerAdded(idx)
          /\ isLoading' = FALSE
     ELSE /\ pc' = "yield_after_analysis"
          /\ UNCHANGED <<idx, processingStatus, isLoading, audioPlayerUIs, audioManager>>

\* essentiaWorker.analyzeAudio(buf, name) called by the processor: without
\* an initialized channel the synthetic result comes back at once, else the
\* request is sent and the processor waits for its promise
CallAnalyze(buf, o1, o2, tr) ==
  LET r == analyzeAudio(essentiaWorker, promises, timers, toWorker, buf,
                        audioFiles[idx].name)
  IN  /\ essentiaWorker' = r.ew
      /\ promises' = r.promises
      /\ timers' = r.timers
      /\ toWorker' = r.toWorker
      /\ UNCHANGED <<fromWorker, engine, replaced>>
      /\ IF r.state = "resolved"
         THEN /\ returned' = r.result
              /\ Analyzed(r.result, o1, o2, tr)
         ELSE /\ pc' = IF pc = "first_decode" THEN "first_analyze" ELSE "rem_analyze"
              /\ audioBuffer' = buf
              /\ trace' = [tr EXCEPT ![idx].sent = TRUE]
              /\ UNCHANGED <<returned, cacheVars>>
              /\ UNCHANGED <<idx, audioFiles, processingStatus, isLoading,
                             audioPlayerUIs, audioManager>>

\* A request's promise was settled by this task (response or timer): the
\* code awaiting it continues.  initialize() records the outcome and
\* initializeApp goes on to load the dataset; analyzeAudio() returns and the
\* processor continues with the file.
Settled(id, ew1, ps1, byTimer, o1, o2) ==
  LET p == ps1[id + 1]
      tr == IF byTimer /\ idx \in 1..Len(trace)
            THEN [trace EXCEPT ![idx].timedOut = TRUE] ELSE trace
  IN  /\ promises' = ps1
      /\ IF promises[id + 1].state # "pending" \/ p.state = "pending"
         THEN /\ essentiaWorker' = ew1
              /\ UNCHANGED <<returned, cacheVars, batchVars>>
         ELSE IF p.type = "init"
         THEN /\ essentiaWorker' = initializeContinues(ew1, p)
              /\ pc' = IF pc = "init_await" THEN "load_await" ELSE pc
              /\ UNCHANGED <<returned, cacheVars>>
              /\ UNCHANGED <<idx, audioFiles, processingStatus, isLoading,
                             audioPlayerUIs, audioBuffer, trace, audioManager>>
         ELSE /\ essentiaWorker' = ew1
              /\ returned' = analyzeAudioReturns(p)
              /\ IF pc \in {"first_analyze", "rem_analyze"}
                 THEN Analyzed(analyzeAudioReturns(p), o1, o2, tr)
                 ELSE UNCHANGED <<cacheVars, batchVars>>

\* Outcomes of the cache write a continuation may make
WriteOutcomes == IF pc \in {"first_analyze", "rem_analyze"} THEN SetItemOutcomes
                 ELSE {<<"ok", "none">>}

(***************************************************************************)
(* Tasks of the host event loop and of the worker.                         *)
(***************************************************************************)
\* The worker handles the next posted message (essentia.worker.js:149-179)
WorkerStep(built, measured) ==
  /\ toWorker # <<>>
  /\ LET r == workerOnMessage(engine, Head(toWorker), built, measured)
     IN  /\ engine' = r.isInitialized
         /\ fromWorker' = fromWorker \o r.reply
  /\ toWorker' = Tail(toWorker)
  /\ UNCHANGED <<essentiaWorker, promises, timers, replaced, returned, cacheVars, batchVars>>

\* worker.onmessage: the next reply is dispatched to handleMessage
HandleMessage ==
  /\ fromWorker # <<>>
  /\ LET m == Head(fromWorker)
         r == handleMessage(essentiaWorker, promises, m)
     IN  \E o \in WriteOutcomes : Settled(m.id, r.ew, r.promises, FALSE, o[1], o[2])
  /\ fromWorker' = Tail(fromWorker)
  /\ UNCHANGED <<timers, toWorker, engine, replaced>>

\* The 60 s timer of request id fires
Timeout(id) ==
  /\ id \in timers
  /\ LET r == timeoutCallback(essentiaWorker, promises, id)
     IN  \E o \in WriteOutcomes :
           Settled(id, r.ew, r.promises, id \in essentiaWorker.pendingMessages, o[1], o[2])
  /\ timers' = timers \ {id}
  /\ UNCHANGED <<toWorker, fromWorker, engine, replaced>>

\* initialize(): new Worker(...) (`created': it did not throw), the handlers
\* are set and the init request is sent; the catch block clears isInitialized.
\* A worker that this.worker still referred to is not stopped: it keeps
\* running with the same onmessage handler, out of reach of terminate().
Initialize(created) ==
  IF ~created
  THEN /\ essentiaWorker' = [essentiaWorker EXCEPT !.isInitialized = FALSE]
       /\ UNCHANGED <<promises, timers, toWorker, fromWorker, engine, replaced, returned>>
  ELSE LET ew1 == [essentiaWorker EXCEPT !.worker = TheWorker]
           r   == sendMessage(ew1, promises, timers, <<>>, "init", NoPayload)
           had == essentiaWorker.worker # NoWorker
       IN  /\ essentiaWorker' = r.ew
           /\ promises' = r.promises
           /\ timers' = r.timers
           /\ toWorker' = r.toWorker
           /\ engine' = FALSE
           /\ fromWorker' = IF had THEN <<>> ELSE fromWorker
           /\ replaced' = IF had
                           THEN Append(replaced, [toWorker |-> toWorker,
                                                  fromWorker |-> fromWorker,
                                                  engine |-> engine])
                           ELSE replaced
           /\ UNCHANGED returned

\* setup() and the start of initializeApp, up to `await initialize()`; when
\* new Worker throws, initialize returns false and the dataset is requested
Setup(created) ==
  /\ pc = "setup"
  /\ Initialize(created)
  /\ pc' = IF created THEN "init_await" ELSE "load_await"
  /\ UNCHANGED <<idx, audioFiles, processingStatus, isLoading, audioPlayerUIs,
                 audioBuffer, trace, audioManager>>
  /\ UNCHANGED cacheVars

\* loadAudioDataset has resolved with ds: the status is set up, the cached
\* files are read, and processFirstAudioFile runs up to its first await
DatasetLoaded(ds) ==
  /\ pc = "load_await"
  /\ \E ts \in Readings(now, Len(ds) + 1) :
       LET n  == Len(ds)
           c1 == LoadCached(cache, ds, ts)
           hit == hasCachedAnalysis(c1, ds[1])
       IN  /\ audioFiles' =
                 [k \in 1..n |->
                    AudioFileRecord(ds[k], IF hasCachedAnalysis(cache, ds[k])
                                           THEN getCachedResult(cache, ds[k])
                                           ELSE ds[k].analysis)]
           /\ cache' = IF hit THEN getCachedAnalysis(c1, ds[1], ts[n + 1]) ELSE c1
           /\ now' = LastReading(cache, ds, ts, now)
           /\ processingStatus' =
                 [current |-> IF hit THEN 1 ELSE 0,
                  total   |-> n,
                  cached  |-> CachedCount(cache, ds)]
           /\ audioPlayerUIs' = IF hit THEN <<1>> ELSE <<>>
           /\ isLoading' = ~hit
           /\ pc' = IF hit THEN PcAfter(1, n) ELSE "first_decode"
           /\ idx' = IF hit THEN IdxAfter(1, n) ELSE 1
           /\ trace' = [k \in 1..n |-> NewTrace]
           /\ audioManager' = AudioManagerOf(ds)
  /\ UNCHANGED <<audioBuffer, storage, last, hist, chanVars>>

\* loadAudioBuffer has resolved for the first file, with the samples or,
\* after any error, with null; analyzeAudio is called with the result
FirstDecoded(ok, o1, o2) ==
  /\ pc = "first_decode"
  /\ LET buf == IF ok THEN "data" ELSE "null"
     IN  CallAnalyze(buf, o1, o2, [trace EXCEPT ![idx].decode = IF ok THEN "ok" ELSE "null"])

\* Loop of processRemainingAudioFiles: the yield before file idx is over
YieldBeforeFile ==
  /\ pc = "yield_before"
  /\ IF hasCachedAnalysis(cache, audioFiles[idx])
     THEN /\ PlayerAdded(idx)
          /\ UNCHANGED <<audioFiles, isLoading, audioBuffer, trace>>
     ELSE /\ pc' = "rem_decode"
          /\ UNCHANGED <<idx, audioFiles, processingStatus, isLoading, audioPlayerUIs,
                         audioBuffer, trace, audioManager>>
  /\ UNCHANGED <<cacheVars, chanVars>>

\* loadAudioBuffer has resolved for file idx; the processor yields
Decoded(ok) ==
  /\ pc = "rem_decode"
  /\ pc' = "yield_after_load"
  /\ audioBuffer' = IF ok THEN "data" ELSE "null"
  /\ trace' = [trace EXCEPT ![idx].decode = IF ok THEN "ok" ELSE "null"]
  /\ UNCHANGED <<idx, audioFiles, processingStatus, isLoading, audioPlayerUIs,
                 audioManager>>
  /\ UNCHANGED <<cacheVars, chanVars>>

\* The yield after loading is over: analyzeAudio is called with the buffer
YieldAfterLoad(o1, o2) ==
  /\ pc = "yield_after_load"
  /\ CallAnalyze(audioBuffer, o1, o2, trace)

\* The yield after the cache write is over: file idx gets its player
YieldAfterAnalysis ==
  /\ pc = "yield_after_analysis"
  /\ PlayerAdded(idx)
  /\ UNCHANGED <<audioFiles, isLoading, audioBuffer, trace>>
  /\ UNCHANGED <<cacheVars, chanVars>>

(***************************************************************************)
(* The pipeline: one page load, from setup() to the end of the batch.      *)
(***************************************************************************)
\* What an earlier session of this program left in localStorage: nothing,
\* or the store as setCachedAnalysis persisted it (no version property)
StoredDoc(files) ==
  JSONstringify([version |-> Undefined,
                 data |-> [k \in 1..Len(files) |-> NewEntry(files[k], Engine1, 0, 0)]])

SessionStores ==
  {NoItem,
   Item(StoredDoc(<<Listing[1]>>)),
   Item(StoredDoc(<<Listing[3]>>)),
   Item(StoredDoc(<<Listing[2], Listing[1]>>)),
   Item(StoredDoc(<<Listing[5], Listing[2]>>))}

Init ==
  /\ \E st \in SessionStores :
       /\ cache = constructCacheManager(st).cache
       /\ storage = constructCacheManager(st).storage
       /\ last = Op("construct", "", NullAnalysis, NullAnalysis, FALSE, st)
       /\ hist = IF constructCacheManager(st).cache.data = <<>> THEN HistEmpty
                 ELSE HistInvalid
  /\ now = 0
  /\ ChannelInit
  /\ BatchInit("setup")

Next ==
  \/ \E created \in BOOLEAN : Setup(created)
  \/ \E built, measured \in BOOLEAN : WorkerStep(built, measured)
  \/ HandleMessage
  \/ \E id \in 0..MaxFiles : Timeout(id)
  \/ \E ds \in Datasets : DatasetLoaded(ds)
  \/ \E ok \in BOOLEAN, o \in SetItemOutcomes : FirstDecoded(ok, o[1], o[2])
  \/ YieldBeforeFile
  \/ \E ok \in BOOLEAN : Decoded(ok)
  \/ \E o \in SetItemOutcomes : YieldAfterLoad(o[1], o[2])
  \/ YieldAfterAnalysis

Spec == Init /\ [][Next]_vars

\* Three tasks of the host as the event loop sees them: the timer of
\* request id has fired and its callback is run; the next reply of the
\* worker is dispatched; the processor resumes after the yield that follows
\* a decode.  In a step of Next these are exactly Timeout(id),
\* HandleMessage and YieldAfterLoad, and they are enabled in the same states.
TimerTask(id) ==
  /\ id \in timers
  /\ timers' = timers \ {id}

ReplyTask ==
  /\ fromWorker # <<>>
  /\ fromWorker' = Tail(fromWorker)

ResumeAfterLoadTask ==
  /\ pc = "yield_after_load"
  /\ pc' \in {"rem_analyze", "yield_after_analysis"}

\* The host event loop runs every task that is due: a fired timer (the 60 s
\* timeout, the setTimeout(0) of yieldToUI), a delivered worker reply, a
\* settled fetch or decode.  Nothing is assumed of the worker.
FairSpec ==
  /\ Spec
  /\ \A id \in 0..MaxFiles : WF_timers(TimerTask(id))
  /\ WF_fromWorker(ReplyTask)
  /\ WF_vars(\E created \in BOOLEAN : Setup(created))
  /\ WF_vars(\E ds \in Datasets : DatasetLoaded(ds))
  /\ WF_vars(\E ok \in BOOLEAN, o \in SetItemOutcomes : FirstDecoded(ok, o[1], o[2]))
  /\ WF_vars(YieldBeforeFile)
  /\ WF_vars(\E ok \in BOOLEAN : Decoded(ok))
  /\ WF_pc(ResumeAfterLoadTask)
  /\ WF_vars(YieldAfterAnalysis)

(***************************************************************************)
(* The pipeline started over a store in which an earlier session left the  *)
(* entry of exactly one file of the listing; the history of writes begins  *)
(* with that one write.                                                    *)
(***************************************************************************)
ScenarioStores == {Item(StoredDoc(<<Listing[k]>>)) : k \in 1..MaxFiles}

ScenarioInit ==
  /\ \E st \in ScenarioStores :
       /\ cache = constructCacheManager(st).cache
       /\ storage = constructCacheManager(st).storage
       /\ last = Op("construct", "", NullAnalysis, NullAnalysis, FALSE, st)
       /\ hist = [HistEmpty EXCEPT !.n = 1,
                                   !.keys = KeysOf(constructCacheManager(st).cache.data)]
  /\ now = 0
  /\ ChannelInit
  /\ BatchInit("setup")

ScenarioSpec == ScenarioInit /\ [][Next]_vars

(***************************************************************************)
(* generateFileKey on its own: two file records are drawn, and a session   *)
(* on an empty store writes and reads them under their keys.               *)
(***************************************************************************)
KeyPaths == {"a", "a_1", "cc"}
KeySizes == {1, 2, 12}
KeyFiles(n) == {[name |-> n, path |-> p, size |-> s] : p \in KeyPaths, s \in KeySizes}

\* The file record of position k, as the cache manager is given it
KeyFile(k) ==
  [name |-> audioFiles[k].name, path |-> audioFiles[k].path, size |-> audioFiles[k].size]

KeyInit ==
  /\ cache = constructCacheManager(NoItem).cache
  /\ storage = NoItem
  /\ last = Op("construct", "", NullAnalysis, NullAnalysis, FALSE, NoItem)
  /\ now = 0
  /\ hist = HistInvalid
  /\ ChannelInit
  /\ pc = "idle"
  /\ idx = 0
  /\ \E f \in KeyFiles("x"), g \in KeyFiles("y") :
       audioFiles = <<AudioFileRecord(f, NullAnalysis), AudioFileRecord(g, NullAnalysis)>>
  /\ processingStatus = [current |-> 0, total |-> 0, cached |-> 0]
  /\ isLoading = TRUE
  /\ audioPlayerUIs = <<>>
  /\ audioBuffer = "none"
  /\ trace = <<>>
  /\ audioManager = NewAudioManager(2)

KeyStore(k, o1, o2) == CSet(KeyFile(k), Engine1, o1, o2) /\ UNCHANGED appVars
KeyLookup(k) == CGet(KeyFile(k)) /\ UNCHANGED appVars

KeyNext ==
  \/ Tick /\ UNCHANGED appVars
  \/ \E k \in 1..2, o \in SetItemOutcomes : KeyStore(k, o[1], o[2])
  \/ \E k \in 1..2 : KeyLookup(k)

KeySpec == KeyInit /\ [][KeyNext]_vars

(***************************************************************************)
(* The channel on its own: initialize, analyzeAudio and terminate called   *)
(* by a client, the worker answering or not.                               *)
(***************************************************************************)
Buffers == {"data", "null"}

ChInitialize(created) ==
  /\ pc = "idle"
  /\ essentiaWorker.worker = NoWorker
  /\ essentiaWorker.messageId < MaxRequests
  /\ Initialize(created)
  /\ UNCHANGED <<cacheVars, batchVars>>

ChAnalyze(buf) ==
  /\ pc = "idle"
  /\ essentiaWorker.messageId < MaxRequests
  /\ LET r == analyzeAudio(essentiaWorker, promises, timers, toWorker, buf, "f")
     IN  /\ essentiaWorker' = r.ew
         /\ promises' = r.promises
         /\ timers' = r.timers
         /\ toWorker' = r.toWorker
         /\ returned' = IF r.state = "resolved" THEN r.result ELSE returned
  /\ UNCHANGED <<fromWorker, engine, replaced, cacheVars, batchVars>>

\* terminate(): the worker is stopped; the messages queued to it and the
\* replies not yet dispatched are discarded with it
Terminate ==
  /\ pc = "idle"
  /\ essentiaWorker' = terminate(essentiaWorker)
  /\ toWorker' = IF essentiaWorker.worker # NoWorker THEN <<>> ELSE toWorker
  /\ fromWorker' = IF essentiaWorker.worker # NoWorker THEN <<>> ELSE fromWorker
  /\ engine' = IF essentiaWorker.worker # NoWorker THEN FALSE ELSE engine
  /\ UNCHANGED <<promises, timers, replaced, returned, cacheVars, batchVars>>

ChannelInitial ==
  /\ EvictInit

ChannelNext ==
  \/ \E created \in BOOLEAN : ChInitialize(created)
  \/ \E buf \in Buffers : ChAnalyze(buf)
  \/ \E built, measured \in BOOLEAN : WorkerStep(built, measured)
  \/ HandleMessage
  \/ \E id \in 0..(MaxRequests - 1) : Timeout(id)
  \/ Terminate

ChannelSpec == ChannelInitial /\ [][ChannelNext]_vars

\* The event loop runs a timer callback once its time has come
FairChannelSpec ==
  /\ ChannelSpec
  /\ \A id \in 0..(MaxRequests - 1) : WF_vars(Timeout(id))

(***************************************************************************)
(* The channel with several requests outstanding and their replies         *)
(* dispatched in any order: worker.onmessage hands handleMessage whichever *)
(* reply the host receives next.                                           *)
(***************************************************************************)
RemoveAt(q, i) == SubSeq(q, 1, i - 1) \o SubSeq(q, i + 1, Len(q))

DeliverReply(i) ==
  /\ i \in 1..Len(fromWorker)
  /\ LET m == fromWorker[i]
         r == handleMessage(essentiaWorker, promises, m)
     IN  \E o \in WriteOutcomes : Settled(m.id, r.ew, r.promises, FALSE, o[1], o[2])
  /\ fromWorker' = RemoveAt(fromWorker, i)
  /\ UNCHANGED <<timers, toWorker, engine, replaced>>

MatchNext ==
  \/ \E created \in BOOLEAN : ChInitialize(created)
  \/ \E buf \in Buffers : ChAnalyze(buf)
  \/ \E built, measured \in BOOLEAN : WorkerStep(built, measured)
  \/ \E i \in 1..MaxRequests : DeliverReply(i)
  \/ \E id \in 0..(MaxRequests - 1) : Timeout(id)
  \/ Terminate

MatchSpec == ChannelInitial /\ [][MatchNext]_vars

(***************************************************************************)
(* The channel with a client that calls initialize(), analyzeAudio() and   *)
(* terminate() in any order, initialize() also while a worker exists.      *)
(***************************************************************************)
ClientInitialize(created) ==
  /\ pc = "idle"
  /\ essentiaWorker.messageId < MaxRequests
  /\ Initialize(created)
  /\ UNCHANGED <<cacheVars, batchVars>>

\* A replaced worker handles the next message posted to it
ReplacedWorkerStep(k, built, measured) ==
  /\ k \in 1..Len(replaced)
  /\ replaced[k].toWorker # <<>>
  /\ LET w == replaced[k]
         r == workerOnMessage(w.engine, Head(w.toWorker), built, measured)
     IN  replaced' = [replaced EXCEPT ![k] =
                        [toWorker |-> Tail(w.toWorker),
                         fromWorker |-> w.fromWorker \o r.reply,
                         engine |-> r.isInitialized]]
  /\ UNCHANGED <<essentiaWorker, promises, timers, toWorker, fromWorker, engine,
                 returned, cacheVars, batchVars>>

\* The onmessage handler of a replaced worker: its next reply is dispatched
\* to handleMessage of the same manager
ReplacedWorkerReply(k) ==
  /\ k \in 1..Len(replaced)
  /\ replaced[k].fromWorker # <<>>
  /\ LET m == Head(replaced[k].fromWorker)
         r == handleMessage(essentiaWorker, promises, m)
     IN  \E o \in WriteOutcomes : Settled(m.id, r.ew, r.promises, FALSE, o[1], o[2])
  /\ replaced' = [replaced EXCEPT ![k].fromWorker = Tail(@)]
  /\ UNCHANGED <<timers, toWorker, fromWorker, engine>>

ClientNext ==
  \/ \E created \in BOOLEAN : ClientInitialize(created)
  \/ \E buf \in Buffers : ChAnalyze(buf)
  \/ \E built, measured \in BOOLEAN : WorkerStep(built, measured)
  \/ HandleMessage
  \/ \E id \in 0..(MaxRequests - 1) : Timeout(id)
  \/ Terminate
  \/ \E k \in 1..MaxRequests, built, measured \in BOOLEAN :
       ReplacedWorkerStep(k, built, measured)
  \/ \E k \in 1..MaxRequests : ReplacedWorkerReply(k)

ClientSpec == ChannelInitial /\ [][ClientNext]_vars

\* The event loop runs a timer callback once its time has come
FairClientSpec ==
  /\ ClientSpec
  /\ \A id \in 0..(MaxRequests - 1) : WF_vars(Timeout(id))

(***************************************************************************)
(* The pipeline on a listing in which the server returned the same file    *)
(* twice: two records with the same path and size, hence the same cache    *)
(* key.  The session starts with nothing in localStorage.                  *)
(***************************************************************************)
DupListings ==
  {ListedRecords(<<Listing[1], Listing[1]>>),
   ListedRecords(<<Listing[1], Listing[2], Listing[1]>>),
   ListedRecords(<<Listing[1], Listing[1], Listing[2]>>)}

DupInit == Init /\ storage = NoItem

DupNext ==
  \/ \E created \in BOOLEAN : Setup(created)
  \/ \E built, measured \in BOOLEAN : WorkerStep(built, measured)
  \/ HandleMessage
  \/ \E id \in 0..MaxFiles : Timeout(id)
  \/ \E ds \in DupListings : DatasetLoaded(ds)
  \/ \E ok \in BOOLEAN, o \in SetItemOutcomes : FirstDecoded(ok, o[1], o[2])
  \/ YieldBeforeFile
  \/ \E ok \in BOOLEAN : Decoded(ok)
  \/ \E o \in SetItemOutcomes : YieldAfterLoad(o[1], o[2])
  \/ YieldAfterAnalysis

DupSpec == DupInit /\ [][DupNext]_vars

(***************************************************************************)
(* Playback: the players of the files processed so far are clicked while   *)
(* the batch goes on.  The batch is the run in which new Worker(...)       *)
(* throws, every file decodes and every cache write succeeds.              *)
(***************************************************************************)
\* An Audio element made by loadAudio for file k: `loading' while the
\* playAudio call that made it is suspended at `await this.loadAudio(...)',
\* `playing' from play() until pause() or the end of the clip
NewElement(k) == [file |-> k, loading |-> TRUE, playing |-> FALSE]

\* audioFile.audioElement.pause(), when the record refers to an element
PauseElement(am, k) ==
  IF am.files[k].audioElement = NoElement THEN am
  ELSE [am EXCEPT !.elements[am.files[k].audioElement].playing = FALSE]

\* pauseAudio(audioFile)
pauseAudio(am, k) ==
  [PauseElement(am, k) EXCEPT !.files[k].isPlaying = FALSE,
                              !.currentPlayingAudio = IF @ = k THEN 0 ELSE @]

\* stopAll(): every file marked playing is paused, currentPlayingAudio is
\* cleared
RECURSIVE stopAllFrom(_, _)
stopAllFrom(am, k) ==
  IF k > Len(am.files) THEN [am EXCEPT !.currentPlayingAudio = 0]
  ELSE stopAllFrom(IF am.files[k].isPlaying THEN pauseAudio(am, k) ELSE am, k + 1)
stopAll(am) == stopAllFrom(am, 1)

\* playAudio after `await this.loadAudio(audioFile)', or at once for a
\* loaded file: the element the record refers to now is played, and with
\* or without an element the file is marked playing
playAudioResumes(am, k) ==
  LET e == am.files[k].audioElement
      a == IF e = NoElement THEN am ELSE [am EXCEPT !.elements[e].playing = TRUE]
  IN  [a EXCEPT !.files[k].isPlaying = TRUE, !.currentPlayingAudio = k]

\* playAudio(audioFile) up to its first await: for a file that is not
\* loaded, loadAudio makes a new Audio element and the call is suspended,
\* whether or not an earlier call on the file is suspended already
playAudio(am, k) ==
  LET a == stopAll(am)
  IN  IF ~a.files[k].isLoaded
      THEN [a EXCEPT !.elements = Append(@, NewElement(k))]
      ELSE playAudioResumes(a, k)

\* loadAudio: the 'loadedmetadata' listener of element e
loadedmetadata(am, e) ==
  [am EXCEPT !.files[am.elements[e].file].isLoaded = TRUE,
             !.files[am.elements[e].file].audioElement = e,
             !.elements[e].loading = FALSE]

\* The 'ended' listener playAudio adds to the element it plays: the clip of
\* element e is over
ended(am, e) ==
  [am EXCEPT !.files[am.elements[e].file].isPlaying = FALSE,
             !.currentPlayingAudio = 0,
             !.elements[e].playing = FALSE]

HasPlayer(k) == \E i \in 1..Len(audioPlayerUIs) : audioPlayerUIs[i] = k

PlaybackStep(am) ==
  /\ audioManager' = am
  /\ UNCHANGED <<pc, idx, audioFiles, processingStatus, isLoading, audioPlayerUIs,
                 audioBuffer, trace>>
  /\ UNCHANGED <<cacheVars, chanVars>>

\* A click that calls playAudio(file k); the number of Audio elements of a
\* page load is bounded
MaxElements == 3
PlayAudio(k) ==
  /\ HasPlayer(k)
  /\ audioManager.files[k].isLoaded \/ Len(audioManager.elements) < MaxElements
  /\ PlaybackStep(playAudio(audioManager, k))

\* Element e has its metadata: the loadAudio call that made it resolves and
\* its playAudio call resumes in the same task
LoadedMetadata(e) ==
  /\ e \in 1..Len(audioManager.elements)
  /\ audioManager.elements[e].loading
  /\ PlaybackStep(playAudioResumes(loadedmetadata(audioManager, e),
                                   audioManager.elements[e].file))

\* Element e reports an error: the loadAudio call that made it rejects and
\* so does its playAudio call
LoadError(e) ==
  /\ e \in 1..Len(audioManager.elements)
  /\ audioManager.elements[e].loading
  /\ PlaybackStep([audioManager EXCEPT !.elements[e].loading = FALSE])

PauseAudio(k) == HasPlayer(k) /\ PlaybackStep(pauseAudio(audioManager, k))

StopAll == audioPlayerUIs # <<>> /\ PlaybackStep(stopAll(audioManager))

\* The clip of element e, which is playing, reaches its end
Ended(e) ==
  /\ e \in 1..Len(audioManager.elements)
  /\ audioManager.elements[e].playing
  /\ PlaybackStep(ended(audioManager, e))

PlayInit == Init /\ storage = NoItem

\* The largest number of players a dataset can give
MaxPlayers == Max(MaxFiles, Len(createDummyAudioData))

PlayNext ==
  \/ Setup(FALSE)
  \/ \E ds \in Datasets : DatasetLoaded(ds)
  \/ FirstDecoded(TRUE, "ok", "none")
  \/ YieldBeforeFile
  \/ Decoded(TRUE)
  \/ YieldAfterLoad("ok", "none")
  \/ YieldAfterAnalysis
  \/ \E k \in 1..MaxPlayers : PlayAudio(k)
  \/ \E e \in 1..MaxElements : LoadedMetadata(e)
  \/ \E e \in 1..MaxElements : LoadError(e)
  \/ \E k \in 1..MaxPlayers : PauseAudio(k)
  \/ StopAll
  \/ \E e \in 1..MaxElements : Ended(e)

PlaySpec == PlayInit /\ [][PlayNext]_vars

(***************************************************************************)
(* Claims about the batch processor and the channel.                       *)
(***************************************************************************)
\* The store was empty when the page loaded (and only written since)
StartedEmpty == hist.valid
\* initialize() is over and did not leave the channel initialized
EngineDisabled ==
  pc \notin {"idle", "setup", "init_await"} /\ ~essentiaWorker.isInitialized
BatchComplete ==
  pc \notin {"idle", "setup", "init_await", "load_await"}
    /\ processingStatus.current = processingStatus.total

\* C1: with the engine disabled and an empty cache at the start, no
\* setCachedAnalysis call is made during the batch and the cache stays
\* empty.
C1_NothingCachedWhenEngineDisabled ==
  (StartedEmpty /\ EngineDisabled) =>
    /\ cache.data = <<>>
    /\ \A k \in 1..Len(trace) : ~trace[k].wrote

\* C2: once the batch is complete (current = total), every record of the
\* dataset has a non-null analysis.
C2_AllAnalyzedWhenComplete ==
  BatchComplete => \A k \in 1..Len(audioFiles) : audioFiles[k].analysis # NullAnalysis

\* A complete batch in which one file was a cache hit, another failed to
\* decode and another timed out
C2_Witness ==
  /\ BatchComplete /\ pc = "done"
  /\ processingStatus.cached >= 1
  /\ \E j, k \in 1..Len(trace) :
       /\ j # k
       /\ trace[j].decode = "null" /\ ~trace[j].timedOut
       /\ trace[k].decode = "ok" /\ trace[k].timedOut

\* C3: a file whose decode failed is never sent to the worker, gets a
\* synthetic analysis and is not written to the cache.
C3_DecodeFailureSkipsChannelAndCache ==
  \A k \in 1..Len(trace) :
    trace[k].decode = "null" =>
      /\ ~trace[k].sent
      /\ ~trace[k].wrote
      /\ audioFiles[k].analysis.src \in {"null", "mock"}

\* C4: a file whose analyze request timed out gets a synthetic analysis and
\* is not written to the cache.
C4_TimeoutNotCached ==
  \A k \in 1..Len(trace) :
    trace[k].timedOut =>
      /\ ~trace[k].wrote
      /\ audioFiles[k].analysis.src = "mock"

\* Request id is over: removed from pendingMessages, its promise settled by
\* a response or rejected by the timer
RequestOver(id) ==
  /\ id < Len(promises)
  /\ id \notin essentiaWorker.pendingMessages
  /\ \/ promises[id + 1].state = "resolved"
     \/ promises[id + 1].state = "rejected" /\ promises[id + 1].reason \in {"error", "timeout"}

\* C10: every registered request is eventually removed from pendingMessages
\* with its promise settled; one that gets no response is rejected by its
\* timer with the timeout error.
C10_UnansweredRequestTimesOut ==
  \A id \in 0..(MaxRequests - 1) :
    (id \in essentiaWorker.pendingMessages) ~> RequestOver(id)

\* An analyze request the worker never handled was rejected by its timer
C10_Witness ==
  \E id \in 0..(Len(promises) - 1) :
    /\ promises[id + 1].type = "analyze"
    /\ promises[id + 1].state = "rejected" /\ promises[id + 1].reason = "timeout"
    /\ id \notin essentiaWorker.pendingMessages
    /\ id \notin timers
    /\ \E i \in 1..Len(toWorker) : toWorker[i].id = id

\* Messages a worker can post, with any id
InboundMessages ==
  {[type |-> "init-complete", id |-> i, payload |-> [success |-> b]] :
     i \in 0..MaxRequests, b \in BOOLEAN}
  \cup {[type |-> "analysis-complete", id |-> i, payload |-> [analysis |-> a]] :
     i \in 0..MaxRequests, a \in {generateMockAnalysis, Engine1}}
  \cup {[type |-> "error", id |-> i, payload |-> [error |-> "e"]] : i \in 0..MaxRequests}

\* The dispatch of a reply whose id is not in pendingMessages
UnknownIdDelivery ==
  /\ fromWorker # <<>>
  /\ Head(fromWorker).id \notin essentiaWorker.pendingMessages
  /\ fromWorker' = Tail(fromWorker)

\* C11: dispatching a message whose id is not in pendingMessages (never
\* issued, already answered or already timed out) leaves pendingMessages,
\* isInitialized, every promise, the cache and the batch processor as they
\* were.
C11_UnknownIdChangesNothing ==
  [][/\ \A m \in InboundMessages :
          m.id \notin essentiaWorker.pendingMessages =>
            handleMessage(essentiaWorker, promises, m)
              = [ew |-> essentiaWorker, promises |-> promises]
     /\ UnknownIdDelivery =>
          UNCHANGED <<essentiaWorker, promises, returned, cacheVars, batchVars>>]_vars

\* A request rejected by its timer whose reply the worker later posted and
\* the host has dispatched: the message is in neither queue any more
C11_Witness ==
  \E id \in 0..(Len(promises) - 1) :
    /\ promises[id + 1].state = "rejected" /\ promises[id + 1].reason = "timeout"
    /\ essentiaWorker.worker # NoWorker
    /\ \A i \in 1..Len(toWorker) : toWorker[i].id # id
    /\ \A i \in 1..Len(fromWorker) : fromWorker[i].id # id

\* C12: after terminate() has returned (the manager has no worker again)
\* pendingMessages is empty and no promise of an earlier request is still
\* pending: every outstanding request failed as part of the termination.
C12_TerminateFailsOutstanding ==
  (essentiaWorker.worker = NoWorker) =>
    /\ essentiaWorker.pendingMessages = {}
    /\ \A i \in 1..Len(promises) : promises[i].state # "pending"


\* C13: whenever the channel is not initialized, analyzeAudio resolves with
\* the synthetic result, registers no request, posts no message, arms no
\* timer and settles no promise; a client's call in such a state changes
\* nothing but the value it got back.
C13_UninitializedFallsBack ==
  [][/\ ~essentiaWorker.isInitialized =>
          \A buf \in Buffers :
            LET r == analyzeAudio(essentiaWorker, promises, timers, toWorker,
                                  buf, "f")
            IN  /\ r.state = "resolved"
                /\ r.result = generateMockAnalysis
                /\ r.ew = essentiaWorker
                /\ r.promises = promises
                /\ r.timers = timers
                /\ r.toWorker = toWorker
     /\ (~essentiaWorker.isInitialized /\ \E buf \in Buffers : ChAnalyze(buf)) =>
          /\ returned' = generateMockAnalysis
          /\ UNCHANGED <<essentiaWorker, promises, timers, toWorker,
                         fromWorker>>]_vars

\* A terminated channel (one request, the init, was ever registered) has
\* returned the synthetic result to a caller
C13_Witness ==
  /\ essentiaWorker.worker = NoWorker
  /\ ~essentiaWorker.isInitialized
  /\ essentiaWorker.messageId = 1
  /\ returned = generateMockAnalysis


\* The ids of the analyze requests issued so far
AnalyzeIds == {id \in 0..(Len(promises) - 1) : promises[id + 1].type = "analyze"}

\* C14: in every state of the pipeline pendingMessages holds at most one
\* analyze request, and of any two analyze requests issued the earlier one
\* was over (resolved, rejected or timed out, and no longer registered)
\* when the later one exists.
C14_OneOutstandingAnalyze ==
  /\ Cardinality(essentiaWorker.pendingMessages \cap AnalyzeIds) <= 1
  /\ \A i, j \in AnalyzeIds :
       i < j => /\ promises[i + 1].state # "pending"
                /\ i \notin essentiaWorker.pendingMessages

\* A second analyze request is outstanding
C14_Witness ==
  \E i, j \in AnalyzeIds :
    /\ i < j
    /\ j \in essentiaWorker.pendingMessages
    /\ promises[j + 1].state = "pending"


\* C15: whatever the dataset and whatever the worker does (answers, answers
\* late, never answers), once every due task of the host is run the batch
\* gets to the end: the dataset is loaded and current equals total, for good.
C15_BatchNeverStalls == <>[]BatchComplete

\* A full batch is complete although a request was never answered in time
C15_Witness ==
  /\ BatchComplete
  /\ processingStatus.total = MaxFiles
  /\ \E k \in 1..Len(trace) : trace[k].timedOut


\* C16: progress counts the files completed, in index order: current never
\* decreases and grows by one at a time; 0 <= current <= total; the players
\* pushed are those of files 1..current in this order; each of these files
\* has an analysis, whether from the cache, the engine or the fallback; and
\* no file beyond the next one has been touched.
C16_ProgressInIndexOrder ==
  [][/\ processingStatus'.current \in
          {processingStatus.current, processingStatus.current + 1}
     /\ processingStatus'.current \in 0..processingStatus'.total
     /\ audioPlayerUIs' = [k \in 1..processingStatus'.current |-> k]
     /\ \A k \in 1..processingStatus'.current :
          audioFiles'[k].analysis # NullAnalysis
     /\ \A k \in (processingStatus'.current + 2)..Len(trace') :
          trace'[k] = NewTrace]_vars

\* All files of a full dataset are complete, one by the engine and one by
\* the fallback after a timeout
C16_Witness ==
  /\ processingStatus.current = MaxFiles
  /\ \E k \in 1..Len(audioFiles) : audioFiles[k].analysis.src = "engine"
  /\ \E k \in 1..Len(audioFiles) :
       trace[k].timedOut /\ audioFiles[k].analysis = generateMockAnalysis


\* The dataset has been received by initializeApp
DatasetReceived == pc \notin {"idle", "setup", "init_await", "load_await"}

\* C17: the pipeline is ready (isLoading false) only after the dataset
\* came in and the first of its files has its analysis.  (The dataset
\* loadAudioDataset resolves with is never empty: an empty listing is
\* replaced by the dummy records.)
C17_ReadyOnceFirstResolved ==
  ~isLoading =>
    /\ DatasetReceived
    /\ Len(audioFiles) > 0
    /\ audioFiles[1].analysis # NullAnalysis

\* The pipeline is ready with the first of three files analyzed through
\* the worker and the others still to come
C17_Witness ==
  /\ ~isLoading
  /\ Len(audioFiles) = MaxFiles
  /\ processingStatus.current = 1
  /\ trace[1].sent
  /\ audioFiles[2].analysis = NullAnalysis


\* C18: the analysis of a record is assigned once: from the step on in
\* which a record has an analysis, no step gives it another value or takes
\* it away, whatever the dataset, the initial store and the evictions.
C18_AnalysisAssignedOnce ==
  [][\A k \in 1..Len(audioFiles) :
       audioFiles[k].analysis # NullAnalysis =>
         /\ k <= Len(audioFiles')
         /\ audioFiles'[k].analysis = audioFiles[k].analysis]_vars


\* File k was never decoded, sent or written: it was served from the cache
ServedFromCache(k) == trace[k] = NewTrace
\* File k was decoded, answered by the engine in time and written
FreshlyAnalyzed(k) ==
  /\ trace[k].decode = "ok"
  /\ trace[k].sent /\ ~trace[k].timedOut
  /\ audioFiles[k].analysis.src = "engine"
  /\ trace[k].wrote
\* No save of the session had to prune (byte budget, QuotaExceededError)
StorageHealthy == hist.valid /\ ~hist.evict
\* The entry of file k in the in-memory store (k is cached)
EntryOf(k) == cache.data[IndexOfKey(cache.data, generateFileKey(audioFiles[k]))]

\* C19: a dataset of three files, one (A) cached by an earlier session and
\* two (B, C) not, processed with a healthy engine and no save that had
\* to prune: at the end the store
\* holds A's entry with the analysis and cachedAt it was loaded with and
\* exactly two more entries, those of B and C with their analyses, and
\* progress reads cached = 1, current = total = 3.
C19_OneCachedTwoAnalyzed ==
  \A a \in 1..3 :
    (/\ BatchComplete
     /\ Len(audioFiles) = 3
     /\ ServedFromCache(a)
     /\ \A k \in (1..3) \ {a} : FreshlyAnalyzed(k)
     /\ StorageHealthy)
    =>
     LET loaded == constructCacheManager(Item(StoredDoc(<<Listing[a]>>))).cache.data[1]
     IN  /\ Len(cache.data) = 3
         /\ KeysOf(cache.data) = {generateFileKey(audioFiles[k]) : k \in 1..3}
         /\ EntryOf(a).analysis = loaded.analysis
         /\ EntryOf(a).cachedAt = loaded.cachedAt
         /\ audioFiles[a].analysis = loaded.analysis
         /\ \A k \in (1..3) \ {a} : EntryOf(k).analysis = audioFiles[k].analysis
         /\ processingStatus = [current |-> 3, total |-> 3, cached |-> 1]

\* The scenario has run to its end with the cached file in the middle
C19_Witness ==
  /\ BatchComplete
  /\ Len(audioFiles) = 3
  /\ ServedFromCache(2)
  /\ FreshlyAnalyzed(1)
  /\ FreshlyAnalyzed(3)
  /\ StorageHealthy


\* C20: the key is a function of path and size alone: two records with the
\* same path and size have the same key whatever else they hold, two
\* records with the same path and different sizes have different keys, and
\* every entry written sits under the key of its own path and size.
C20_KeyDeterminedByPathAndSize ==
  LET f == KeyFile(1)
      g == KeyFile(2)
  IN  /\ (f.path = g.path /\ f.size = g.size) =>
           generateFileKey(f) = generateFileKey(g)
      /\ (f.path = g.path /\ f.size # g.size) =>
           generateFileKey(f) # generateFileKey(g)
      /\ \A i \in 1..Len(cache.data) :
           cache.data[i].key =
             generateFileKey([path |-> cache.data[i].path, size |-> cache.data[i].size])
      /\ (f.path = g.path /\ f.size # g.size
            /\ hasCachedAnalysis(cache, f) /\ ~hasCachedAnalysis(cache, g)) =>
           getCachedResult(cache, g) = NullAnalysis

\* Two records of one path and two sizes are both in the store
C20_Witness ==
  /\ KeyFile(1).path = KeyFile(2).path
  /\ KeyFile(1).size # KeyFile(2).size
  /\ Len(cache.data) = 2
  /\ hasCachedAnalysis(cache, KeyFile(1))
  /\ hasCachedAnalysis(cache, KeyFile(2))


\* The setItem calls among the calls of a save
SetItemCalls(calls) == {i \in 1..Len(calls) : calls[i] = "setItem"}

\* C21: a save whose write fails with QuotaExceededError prunes and writes
\* once more, and no more: exactly two setItem calls with a pruneCache
\* between them; when the second fails too, nothing is thrown, the
\* persisted text stays what it was, and setCachedAnalysis returns.
C21_QuotaRetriedOnceThenSwallowed ==
  \A f \in RunFiles, o2 \in {"ok", "fail"}, ts \in Readings(now, 2) :
    LET r == setCachedAnalysis(cache, storage, f, Engine1, ts[1], ts[2], "quota", o2)
        n == Len(r.calls)
    IN  /\ Cardinality(SetItemCalls(r.calls)) = 2
        /\ n >= 3
        /\ SubSeq(r.calls, n - 2, n) = <<"setItem", "pruneCache", "setItem">>
        /\ ~r.threw
        /\ o2 = "fail" => r.storage = storage
        /\ o2 = "ok" => r.storage = Item(JSONstringify(r.cache))

\* The third write of a session met the quota error twice: the store was
\* pruned to keepCount entries and the persisted text is not the store
C21_Witness ==
  /\ hist.valid /\ hist.n = 3 /\ hist.evict
  /\ hist.keys = {"a_1", "a_2", "b_1"}
  /\ last.op = "set" /\ ~last.flag
  /\ Len(cache.data) = keepCount
  /\ storage # Item(JSONstringify(cache))


\* C22: when the persistent write of setCachedAnalysis(f, a) failed (quota
\* with a failed retry, or another error), the in-memory store still holds
\* f: from the call on, through the reads and the time that follow it,
\* hasCachedAnalysis(f) is true and getCachedAnalysis(f) returns a.
C22_FailedSaveKeepsEntry ==
  (last.op = "set" /\ ~last.flag) =>
    /\ last.key \in KeysOf(cache.data)
    /\ cache.data[IndexOfKey(cache.data, last.key)].analysis = last.arg


\* C23: when the serialized store is over the byte budget at save time,
\* pruneCache runs before the first setItem, and the text that setItem
\* stores is the store as it is after that eviction.
C23_WriteStoresEvictedStore ==
  \A f \in RunFiles, ts \in Readings(now, 2) :
    LET r == setCachedAnalysis(cache, storage, f, Engine1, ts[1], ts[2], "ok", "none")
    IN  r.calls = <<"pruneCache", "setItem">> =>
          r.storage = Item(JSONstringify(r.cache))


\* The reply in the inbound queue that carries request id's own id
OwnReply(id, i) ==
  /\ i \in 1..Len(fromWorker)
  /\ fromWorker[i].id = id

\* C24: replies are matched to requests by id, not by arrival order:
\* whatever the order in which the replies of the outstanding requests are
\* dispatched, a promise is resolved only by the dispatch of the reply
\* carrying its own id and with that reply's payload, and the worker's
\* reply carries the id of the request it answers.
C24_SettledByOwnResponse ==
  [][/\ \A id \in 0..(Len(promises) - 1) :
          (promises[id + 1].state = "pending" /\ promises'[id + 1].state = "resolved") =>
            \E i \in 1..Len(fromWorker) :
              /\ OwnReply(id, i)
              /\ promises'[id + 1].value = fromWorker[i].payload
              /\ fromWorker' = RemoveAt(fromWorker, i)
              /\ id \notin essentiaWorker'.pendingMessages
     /\ Len(fromWorker') > Len(fromWorker) =>
          /\ toWorker # <<>>
          /\ fromWorker'[Len(fromWorker')].id = Head(toWorker).id]_vars

\* Two analyze requests outstanding, the later one answered first: it is
\* resolved with its own result while the earlier one is still pending and
\* its reply, with a different payload, waits in the queue
C24_Witness ==
  /\ Len(promises) = 3
  /\ promises[2].type = "analyze" /\ promises[2].state = "pending"
  /\ promises[3].type = "analyze" /\ promises[3].state = "resolved"
  /\ essentiaWorker.pendingMessages = {1}
  /\ \E i \in 1..Len(fromWorker) :
       /\ OwnReply(1, i)
       /\ fromWorker[i].payload # promises[3].value


\* C25: correlation ids are strictly increasing and unique for the life of
\* the manager: messageId never decreases, and every request registered
\* (also after terminate() and a new initialize()) gets an id that is not
\* in pendingMessages and is greater than every id issued before it, so no
\* id, removed or not, is used twice.  The ids issued so far are
\* 0 .. Len(promises) - 1.
C25_IdsFreshAndIncreasing ==
  [][/\ essentiaWorker'.messageId >= essentiaWorker.messageId
     /\ Len(promises') > Len(promises) =>
          \E id \in 0..MaxRequests :
            /\ id = Len(promises)
            /\ id \notin essentiaWorker.pendingMessages
            /\ essentiaWorker'.pendingMessages = essentiaWorker.pendingMessages \cup {id}
            /\ essentiaWorker'.messageId = id + 1
            /\ Len(toWorker') > Len(toWorker) => toWorker'[Len(toWorker')].id = id]_vars

\* An init request answered and removed, an analyze request, terminate(),
\* and the init request of a new initialize() just posted with the third id
C25_Witness ==
  /\ Len(promises) = 3
  /\ promises[1].type = "init" /\ promises[1].state = "resolved"
  /\ promises[2].type = "analyze"
  /\ promises[3].type = "init" /\ promises[3].state = "pending"
  /\ 0 \notin essentiaWorker.pendingMessages
  /\ essentiaWorker.messageId = 3
  /\ toWorker # <<>> /\ toWorker[Len(toWorker)].id = 2


\* The outstanding analyze requests
PendingAnalyzeIds ==
  {id \in AnalyzeIds : id \in essentiaWorker.pendingMessages
                         /\ promises[id + 1].state = "pending"}

\* C26: analyzeAudio never fails: whenever the promise of its request is
\* rejected (by an 'error' reply, by the timer, or by postMessage throwing),
\* the call returns the synthetic analysis, which is a complete result and
\* not null.  Checked on every step that rejects an analyze request, and,
\* for every outstanding analyze request, on the dispatch of an 'error'
\* reply and on the firing of its timer.
C26_AnalyzeNeverRejects ==
  [][/\ \A id \in AnalyzeIds :
          (promises[id + 1].state = "pending" /\ promises'[id + 1].state = "rejected") =>
            /\ returned' = generateMockAnalysis
            /\ returned'.src = "mock"
     /\ \A id \in PendingAnalyzeIds :
          LET e == handleMessage(essentiaWorker, promises,
                                 [type |-> "error", id |-> id, payload |-> [error |-> "e"]])
              t == timeoutCallback(essentiaWorker, promises, id)
          IN  /\ e.promises[id + 1].state = "rejected"
              /\ analyzeAudioReturns(e.promises[id + 1]) = generateMockAnalysis
              /\ t.promises[id + 1].state = "rejected"
              /\ analyzeAudioReturns(t.promises[id + 1]) = generateMockAnalysis
     /\ generateMockAnalysis # NullAnalysis]_vars

\* An initialized channel whose only analyze request was rejected by its
\* timer while the worker had measured nothing: the call returned the
\* synthetic analysis
C26_Witness ==
  /\ Len(promises) = 2
  /\ promises[1].type = "init" /\ promises[1].state = "resolved"
  /\ promises[2].type = "analyze"
  /\ promises[2].state = "rejected" /\ promises[2].reason = "timeout"
  /\ essentiaWorker.isInitialized
  /\ 1 \notin essentiaWorker.pendingMessages
  /\ returned = generateMockAnalysis


NowPlaying == {k \in 1..Len(audioManager.files) : audioManager.files[k].isPlaying}

\* C27: only one clip plays at a time: under every interleaving of
\* playAudio, pauseAudio, stopAll, load completions and 'ended' events, at
\* most one audio file has isPlaying = true.
C27_AtMostOnePlaying == Cardinality(NowPlaying) <= 1


\* Entry i of the store after is entry i of the store before with
\* lastAccessed = t, and nothing else differs between the two stores
OnlyRestamped(before, after, i, t) ==
  /\ after.version = before.version
  /\ Len(after.data) = Len(before.data)
  /\ after.data[i] = [before.data[i] EXCEPT !.lastAccessed = t]
  /\ after.data[i].analysis = before.data[i].analysis
  /\ after.data[i].cachedAt = before.data[i].cachedAt
  /\ \A j \in 1..Len(before.data) : j # i => after.data[j] = before.data[j]

\* C28: getCachedAnalysis on a hit sets that entry's lastAccessed to the
\* current time, leaves its analysis, its cachedAt and every other entry
\* as they were and returns the stored analysis; on a miss it returns null
\* and leaves the store as it was.  Nothing is persisted by either.
C28_GetOnlyRestampsTheHit ==
  [][/\ \A f \in RunFiles, t \in now..MaxClock :
          LET i == IndexOfKey(cache.data, generateFileKey(f))
              after == getCachedAnalysis(cache, f, t)
          IN  IF i = 0
              THEN after = cache /\ getCachedResult(cache, f) = NullAnalysis
              ELSE /\ OnlyRestamped(cache, after, i, t)
                   /\ getCachedResult(cache, f) = cache.data[i].analysis
                   /\ getCachedResult(after, f) = cache.data[i].analysis
     /\ (last' = last /\ cache' # cache) =>
          /\ now' >= now
          /\ \E i \in 1..Len(cache.data) : OnlyRestamped(cache, cache', i, now')
          /\ UNCHANGED <<storage, hist>>]_vars

\* Two entries written at time 0, the first of them read at time 1: its
\* lastAccessed moved, its cachedAt and the other entry did not
C28_Witness ==
  /\ Len(cache.data) >= 2
  /\ cache.data[1].cachedAt = 0 /\ cache.data[1].lastAccessed = 1
  /\ cache.data[2].cachedAt = 0 /\ cache.data[2].lastAccessed = 0
  /\ last.op = "set"


\* after holds Min(n, keepCount) of the n entries of before, and each of
\* them was accessed no earlier than every entry that was dropped
KeepsMostRecent(before, after) ==
  /\ Len(after.data) = Min(Len(before.data), keepCount)
  /\ \A i \in 1..Len(after.data) :
       /\ \E j \in 1..Len(before.data) : before.data[j] = after.data[i]
       /\ \A j \in 1..Len(before.data) :
            before.data[j].key \notin KeysOf(after.data) =>
              after.data[i].lastAccessed >= before.data[j].lastAccessed

\* The store of setCachedAnalysis(f, a) right after the entry is assigned
StoreWithEntry(f, ts) ==
  [cache EXCEPT !.data = PutEntry(cache.data, NewEntry(f, Engine1, ts[1], ts[2]))]

\* C29 as stated: a setCachedAnalysis whose store has at most maxCacheSize
\* entries once the entry is in (exactly maxCacheSize included) evicts
\* nothing; above maxCacheSize pruneCache runs, and pruneCache on n entries
\* keeps exactly min(n, floor(0.7 * maxCacheSize)) of them, the most
\* recently accessed.
C29_NoEvictionUpToMax ==
  \A f \in RunFiles, o \in SetItemOutcomes, ts \in Readings(now, 2) :
    LET put == StoreWithEntry(f, ts)
        r   == setCachedAnalysis(cache, storage, f, Engine1, ts[1], ts[2], o[1], o[2])
    IN  /\ Len(put.data) <= maxCacheSize => r.cache = put
        /\ Len(put.data) > maxCacheSize => KeepsMostRecent(put, pruneCache(put))
        /\ KeepsMostRecent(cache, pruneCache(cache))

\* C29 amended: the entry-count check of setCachedAnalysis evicts only
\* above maxCacheSize; up to maxCacheSize (included) the call evicts
\* nothing unless its save evicts (byte budget exceeded or quota error);
\* above it the store is pruned to the floor(0.7 * maxCacheSize) most
\* recently accessed entries before the save.
C29_CountCheckEvictsOnlyAboveMax ==
  \A f \in RunFiles, o \in SetItemOutcomes, ts \in Readings(now, 2) :
    LET put == StoreWithEntry(f, ts)
        pr  == pruneCache(put)
        r   == setCachedAnalysis(cache, storage, f, Engine1, ts[1], ts[2], o[1], o[2])
    IN  /\ (Len(put.data) <= maxCacheSize /\ ~SaveEvicts(put, o[1])) => r.cache = put
        /\ Len(put.data) <= maxCacheSize => r = saveCache(put, storage, o[1], o[2])
        /\ Len(put.data) > maxCacheSize =>
             /\ KeepsMostRecent(put, pr)
             /\ Len(pr.data) = keepCount
             /\ r = saveCache(pr, storage, o[1], o[2])
             /\ ~SaveEvicts(pr, o[1]) => r.cache = pr
        /\ KeepsMostRecent(cache, pruneCache(cache))

\* The write that took the store above maxCacheSize has just pruned it to
\* keepCount entries, no save of the run having evicted
C29_Witness ==
  /\ hist.valid /\ hist.n = maxCacheSize + 1 /\ ~hist.evict
  /\ last.op = "set" /\ last.flag
  /\ Len(cache.data) = keepCount
  /\ last.key \in KeysOf(cache.data)


\* What a host turn did for file k: its decode finished, its analysis was
\* assigned (sketch.js:279), its entry was written to the cache (282)
DecodedInTurn(k) == trace[k].decode = "none" /\ trace'[k].decode # "none"
AnalyzedInTurn(k) ==
  audioFiles[k].analysis = NullAnalysis /\ audioFiles'[k].analysis # NullAnalysis
WrittenInTurn(k) == ~trace[k].wrote /\ trace'[k].wrote

\* C30: for every file after the first that needs analysis, the processor
\* yields between the decode, the analyze and the cache-write step, so no
\* two of them run in the same uninterrupted host turn.
C30_StepsInSeparateTurns ==
  [][\A k \in 2..Len(trace) :
       /\ ~(DecodedInTurn(k) /\ AnalyzedInTurn(k))
       /\ ~(AnalyzedInTurn(k) /\ WrittenInTurn(k))
       /\ ~(DecodedInTurn(k) /\ WrittenInTurn(k))]_vars


\* A step of the run that is a setCachedAnalysis call whose last setItem
\* stored its text
SuccessfulWrite == hist'.n > hist.n /\ last'.op = "set" /\ last'.flag

\* C31: after every successful persistent write made by setCachedAnalysis,
\* whichever eviction ran, the entries of the persisted store are the
\* entries of the in-memory store.
C31_PersistedEntriesEqualMemory ==
  [][SuccessfulWrite =>
       /\ storage'.present
       /\ storage'.doc.valid
       /\ JSONparse(storage'.doc).data = cache'.data]_vars


\* C32: the entry just written is never evicted by the eviction its own
\* write triggers: in every store of a session whose clock never goes
\* back, right after setCachedAnalysis(f, a) returns hasCachedAnalysis(f)
\* is true, whichever of the entry-count, byte-budget and quota-retry
\* evictions ran.
C32_OwnWriteSurvivesEviction ==
  \A f \in Files, o \in SetItemOutcomes, ts \in Readings(now, 2) :
    hasCachedAnalysis(
      setCachedAnalysis(cache, storage, f, Engine1, ts[1], ts[2], o[1], o[2]).cache, f)


\* C33: every request future is settled at most once.  The settle
\* callbacks are reached only through an entry of pendingMessages, an id
\* that is in pendingMessages has a future that is still pending, and both
\* paths remove the entry: after the dispatch of a reply, a duplicate reply
\* with the same id and the timer of that id change nothing, and after the
\* timer a reply with that id changes nothing.  A settled future keeps its
\* state and value in every step.
C33_SettledAtMostOnce ==
  [][/\ \A id \in essentiaWorker.pendingMessages : promises[id + 1].state = "pending"
     /\ \A id \in 0..(Len(promises) - 1) :
          promises[id + 1].state # "pending" => promises'[id + 1] = promises[id + 1]
     /\ \A m \in InboundMessages :
          LET r == handleMessage(essentiaWorker, promises, m)
          IN  /\ m.id \notin r.ew.pendingMessages
              /\ timeoutCallback(r.ew, r.promises, m.id) = r
              /\ \A d \in InboundMessages :
                   d.id = m.id => handleMessage(r.ew, r.promises, d) = r
     /\ \A id \in 0..(Len(promises) - 1) :
          LET t == timeoutCallback(essentiaWorker, promises, id)
          IN  /\ id \notin t.ew.pendingMessages
              /\ \A d \in InboundMessages :
                   d.id = id => handleMessage(t.ew, t.promises, d) = t]_vars

\* An analyze request resolved by its reply whose timer has fired since:
\* the future is still resolved with the reply's payload
C33_Witness ==
  /\ Len(promises) >= 2
  /\ promises[2].type = "analyze" /\ promises[2].state = "resolved"
  /\ 1 \notin timers
  /\ 1 \notin essentiaWorker.pendingMessages
  /\ essentiaWorker.worker # NoWorker


\* C34: between any two steps of the batch processor, where draw() can
\* run, every player refers to a file that has its analysis, the players
\* are the files in dataset order (player i is file i), and there are
\* current or current + 1 of them.  The records of the dataset have
\* distinct paths.
C34_PlayersAnalyzedAndInOrder ==
  /\ \A i \in 1..Len(audioPlayerUIs) :
       /\ audioPlayerUIs[i] = i
       /\ i <= Len(audioFiles)
       /\ audioFiles[audioPlayerUIs[i]].analysis # NullAnalysis
  /\ Len(audioPlayerUIs) \in {processingStatus.current, processingStatus.current + 1}

\* The UI is shown with two players while the request of the third file
\* is outstanding
C34_Witness ==
  /\ ~isLoading
  /\ pc = "rem_analyze" /\ idx = 3
  /\ Len(audioPlayerUIs) = 2
  /\ audioFiles[3].analysis = NullAnalysis
  /\ 3 \in {k \in 1..Len(trace) : trace[k].sent}


SameFile(j, k) ==
  /\ j # k
  /\ audioFiles[j].path = audioFiles[k].path
  /\ audioFiles[j].size = audioFiles[k].size

\* C35: when two records of the dataset have the same (path, size) and
\* neither was cached when processing started, both have a non-null
\* analysis once the batch is complete.
C35_DuplicatesBothAnalyzed ==
  (BatchComplete /\ processingStatus.cached = 0) =>
    \A j, k \in 1..Len(audioFiles) :
      SameFile(j, k) =>
        /\ audioFiles[j].analysis # NullAnalysis
        /\ audioFiles[k].analysis # NullAnalysis


\* A step of hasCachedAnalysis, getCacheStats or exportCache, and a step
\* of getCachedAnalysis that hit
PureReadStep == last'.op \in {"has", "stats", "export"}
ReadStep == last'.op \in {"has", "stats", "export", "get"}

\* The entry of key k in a store's data, as a set (empty when absent)
EntriesWithKey(data, k) == {data[i] : i \in {j \in 1..Len(data) : data[j].key = k}}

\* The last operation was a hit, and localStorage holds the entry it
\* stamped with an older lastAccessed
HitNotPersisted ==
  /\ last.op = "get" /\ last.flag
  /\ storage.present
  /\ \E e \in EntriesWithKey(cache.data, last.key),
        d \in EntriesWithKey(storage.doc.data, last.key) :
       /\ e.cachedAt = d.cachedAt
       /\ e.lastAccessed > d.lastAccessed

\* The step puts the entry stamped by that hit into localStorage
HitStampPersisted ==
  /\ HitNotPersisted
  /\ storage'.present
  /\ EntriesWithKey(cache.data, last.key) \subseteq EntriesWithKey(storage'.doc.data, last.key)

\* A step that ends with a read recorded in `last' is that read, a
\* repetition of it, or time passing
ReadsLeaveStorage ==
  /\ ReadStep => storage' = storage
  /\ PureReadStep => cache' = cache

\* C36 as stated: hasCachedAnalysis, getCachedAnalysis, getCacheStats and
\* exportCache never write to localStorage, the three that are not
\* getCachedAnalysis leave the in-memory store as it is, and a lastAccessed
\* moved by a hit reaches localStorage only with a successful
\* setCachedAnalysis.
C36_HitStampPersistedOnlyBySet ==
  [][/\ ReadsLeaveStorage
     /\ HitStampPersisted => (last'.op = "set" /\ last'.flag)]_vars

\* C36 amended: the same, the lastAccessed moved by a hit reaching
\* localStorage only with a successful save: that of a setCachedAnalysis,
\* or that of an importCache of a text exported after the hit.
C36_HitStampPersistedOnlyBySave ==
  [][/\ ReadsLeaveStorage
     /\ HitStampPersisted => (last'.op \in {"set", "import"} /\ last'.flag)]_vars

\* An entry that is in localStorage was read after the clock moved: the
\* hit has stamped it in memory, localStorage still holds the old stamp and
\* the store was not written since
C36_Witness ==
  /\ HitNotPersisted
  /\ now > 0
  /\ \E e \in EntriesWithKey(cache.data, last.key) : e.lastAccessed = now

\* C37: exporting the in-memory store and importing that text back is
\* accepted, whatever setItem does, and leaves the in-memory entries as they
\* were; an import that is refused (unparsable text or another version tag)
\* leaves both the in-memory store and the persisted store as they were.
RoundTripAccepted ==
  /\ importAccepted(exportCache(cache))
  /\ \A o \in SetItemOutcomes :
       importCache(cache, storage, exportCache(cache), o[1], o[2]).cache.data
         = cache.data

RefusedImportChangesNothing ==
  \A doc \in ImportDocs(cache), o \in SetItemOutcomes :
    ~importAccepted(doc) =>
      LET r == importCache(cache, storage, doc, o[1], o[2])
      IN  r.cache = cache /\ r.storage = storage

C37_ExportImportRoundTrip ==
  RoundTripAccepted /\ RefusedImportChangesNothing

\* C38: in every state reachable through initialize, analyzeAudio and
\* terminate, an initialized channel has a worker, and so every request that
\* was registered had its message posted and its timer armed (none was
\* rejected by postMessage throwing at registration).
C38_InitializedHasWorker ==
  /\ essentiaWorker.isInitialized => essentiaWorker.worker # NoWorker
  /\ \A id \in 0..(Len(promises) - 1) : promises[id + 1].reason # "throw"

\* C38, the last part: every registered request is eventually removed from
\* pendingMessages
C38_RegisteredEventuallyRemoved ==
  \A id \in 0..(MaxRequests - 1) :
    (id \in essentiaWorker.pendingMessages) ~> (id \notin essentiaWorker.pendingMessages)

====
